---- MODULE Spec2Model ----
(***************************************************************************)
(* Model of the eventop SDK tour orchestration engine: the feature         *)
(* registry (ghost variant and plain variant), the step merge and flow     *)
(* expansion, and the tour runner with its pause / resume / cancel         *)
(* lifecycle over the shared mutable state.                                *)
(*                                                                         *)
(* Conventions.  JS null and undefined are NULL for string-valued fields   *)
(* and the empty tuple for tuple-valued fields (ids, titles, texts, step   *)
(* lists).  A JS object is a TLA+ record whose DOMAIN is the set of keys   *)
(* present, so that object spread keeps its "last key wins" meaning.       *)
(* Template strings are tuples of their parts: `${id}-flow-${i}` is        *)
(* <<id-part, "flow", i>>.                                                 *)
(***************************************************************************)
EXTENDS Integers, Sequences, FiniteSets, TLC

NULL == "null"

NoId == <<>>

NoSteps == <<>>

\* ------------------------------------------------------------------ bounds

\* Flow steps one feature may hold at once in the registry model.
MaxFlowSteps == 3

\* runTour calls made in one behaviour.
MaxCalls == 2

\* Cleanup callbacks pending in state.cleanups at once.
MaxCleanups == 2

\* ----------------------------------------------------------------- helpers

\* JS: obj.key, undefined when the key is absent.
Get(obj, key, dflt) == IF key \in DOMAIN obj THEN obj[key] ELSE dflt

GetS(obj, key) == Get(obj, key, NULL)

GetT(obj, key) == Get(obj, key, <<>>)

\* JS: a || b on string-valued operands.
OrS(a, b) == IF a # NULL THEN a ELSE b

\* JS: a || b on tuple-valued operands (ids).
OrT(a, b) == IF a # <<>> THEN a ELSE b

\* JS: { ...base, ...over }
Spread(base, over) ==
  [k \in (DOMAIN base) \cup (DOMAIN over) |->
     IF k \in DOMAIN over THEN over[k] ELSE base[k]]

\* JS: Array.prototype.findIndex(x => x.id === id) from position i on.
RECURSIVE FindFrom(_, _, _)
FindFrom(seq, id, i) ==
  IF i > Len(seq) THEN 0
  ELSE IF GetT(seq[i], "id") = id THEN i
  ELSE FindFrom(seq, id, i + 1)

\* Index (1-based) of the first element whose id is `id`, 0 when none.
FindIndexById(seq, id) == FindFrom(seq, id, 1)

\* JS: Array.prototype.flatMap
RECURSIVE Flatten(_)
Flatten(seqs) ==
  IF seqs = <<>> THEN <<>> ELSE Head(seqs) \o Flatten(Tail(seqs))

SeqFilterNot(seq, i) == SubSeq(seq, 1, i - 1) \o SubSeq(seq, i + 1, Len(seq))

VARIABLES
  variant,        \* which createFeatureRegistry() built the registry
  features,       \* registry: Map<featureId, featureData>, in insertion order
  flowSteps,      \* registry: Map<featureId, Map<stepKey, stepData>>
  lastReg,        \* call record of the last registry mutation (observer)
  listeners,      \* registry: the Set of subscribed listeners
  notes,          \* how often the last registry call invoked each listener
  snappedLive,    \* ids some snapshot() held as live entries (observer)
  configFeatures, \* state.config.features
  mStep,          \* merge harness: the incoming (AI) step
  mMerged,        \* merge harness: mergeWithFeature(mStep)
  mExpanded,      \* merge harness: the expansion of the merged step
  mPc,            \* merge harness: "input" | "merged" | "expanded"
  tour,           \* state.tour: the call whose tour it is, 0 for null
  activeTour,     \* Shepherd.activeTour, 0 for null
  pausedSteps,    \* state.pausedSteps, NoSteps for null
  pausedIndex,    \* state.pausedIndex
  cleanups,       \* state.cleanups: each callback as [owner, during, runs]
  misfired,       \* callbacks dropped without exactly one run (observer)
  calls,          \* the runTour calls made so far, each with its tour
  resumePrompt,   \* whether #sai-resume-prompt is in the chat
  isOpen,         \* state.isOpen
  aiVariant,      \* which build's callAI runs
  provider,       \* state.provider
  config,         \* state.config, apart from its features (configFeatures)
  router,         \* state.router
  chatBuilt,      \* whether buildChat has put the chat into the document
  lastInit,       \* the last init call: its argument and how it ended
  hook,           \* step harness: one step from runTour to its being shown
  send,           \* chat: the handleSend calls, the input controls, the timers
  adv,            \* auto-advance: the DOM events seen and the pending timers
  messages,       \* state.messages: the conversation history
  aiCalls,        \* the callAI calls made so far
  raw,            \* parse harness: the argument of parseAIResponse, as tokens
  parsed,         \* parse harness: the outcome of parseAIResponse(raw)
  pathname,       \* window.location.pathname
  planSteps,      \* route-plan harness: the argument of previewRoutesNeeded
  plan,           \* route-plan harness: its result, NoPlan before the call
  waits,          \* the waitForElement / waitForRouteChange promises made
  nav             \* the navigateToRoute call of the navigation harness

regVars ==
  <<variant, features, flowSteps, lastReg, listeners, notes, snappedLive>>

mergeVars == <<mStep, mMerged, mExpanded, mPc>>

tourVars ==
  <<tour, activeTour, pausedSteps, pausedIndex, cleanups, misfired, calls,
    resumePrompt, isOpen>>

parseVars == <<raw, parsed>>

planVars == <<planSteps, plan>>

navVars == <<waits, nav>>

sideVars == <<send, adv>>

hostVars ==
  <<aiVariant, provider, config, router, chatBuilt, lastInit, hook, sideVars>>

aiVars ==
  <<hostVars, messages, aiCalls, parseVars, pathname, planVars, navVars>>

vars == <<regVars, configFeatures, mergeVars, tourVars, aiVars>>

\* ------------------------------------------------------- registry inputs

FeatureIds == {<<"f">>, <<"g">>}

\* Features that declare flow steps (EventopStep children).
StepFeatureIds == {<<"f">>}

FeatureInputs ==
  { [id |-> <<"f">>, name |-> "F", description |-> "does f", route |-> "/a",
     selector |-> "#f", navigate |-> NULL, navigateWaitFor |-> NULL,
     waitFor |-> "#wf", advanceOn |-> "click@#f"],
    [id |-> <<"f">>, name |-> "F2", description |-> NULL, route |-> NULL,
     selector |-> "#f2", navigate |-> "nav", navigateWaitFor |-> "#nw",
     waitFor |-> NULL, advanceOn |-> NULL],
    [id |-> <<"g">>, name |-> "G", description |-> "does g", route |-> "/b",
     selector |-> "#g", navigate |-> NULL, navigateWaitFor |-> NULL,
     waitFor |-> NULL, advanceOn |-> NULL] }

StepIndexes == {0, 1}

\* parentStep: -1 stands for null (a top-level step).
NoParent == -1

StepParents == {NoParent, 0}

StepData(index, parentStep) ==
  [selector |-> IF parentStep = NoParent
                  THEN IF index = 0 THEN ".s0" ELSE ".s1"
                  ELSE IF index = 0 THEN ".s0.0" ELSE ".s0.1",
   waitFor |-> NULL,
   advanceOn |-> NULL]

\* ---------------------------------------------------- registry: Map helpers

MapHas(map, id) == FindIndexById(map, id) # 0

MapGet(map, id) == map[FindIndexById(map, id)]

\* Map.prototype.set: replaces in place, or appends a new key.
MapSet(map, entry) ==
  LET i == FindIndexById(map, entry.id)
  IN IF i = 0 THEN Append(map, entry) ELSE [map EXCEPT ![i] = entry]

\* Map.prototype.delete
MapDelete(map, id) ==
  LET i == FindIndexById(map, id)
  IN IF i = 0 THEN map ELSE SeqFilterNot(map, i)

\* ------------------------------------------- registry: ghost variant

\* registerFeature (ghost variant): full entry, _ghost false.
RegisterFeatureGhost(feature) ==
  MapSet(features, Spread(feature, [_ghost |-> FALSE]))

\* unregisterFeature (ghost variant): the entry is downgraded to a ghost.
GhostOf(feature) ==
  [id |-> feature.id,
   name |-> feature.name,
   description |-> feature.description,
   route |-> OrS(feature.route, NULL),
   navigate |-> OrS(feature.navigate, NULL),
   navigateWaitFor |-> OrS(feature.navigateWaitFor, NULL),
   selector |-> NULL,
   advanceOn |-> NULL,
   waitFor |-> NULL,
   _ghost |-> TRUE]

UnregisterFeatureGhost(id) == MapSet(features, GhostOf(MapGet(features, id)))

\* --------------------------------------------- registry: plain variant

\* registerFeature (src/registry.js): no ghost flag.
RegisterFeaturePlain(feature) == MapSet(features, feature)

\* unregisterFeature (src/registry.js): the entry is deleted.
UnregisterFeaturePlain(id) == MapDelete(features, id)

\* ------------------------------------------------ registry: flow steps

\* key = parentStep != null ? `${parentStep}.${index}` : String(index)
StepKey(index, parentStep) ==
  IF parentStep # NoParent THEN <<parentStep, index>> ELSE <<index>>

StepEntry(index, parentStep, stepData) ==
  Spread(stepData,
         [index |-> index, parentStep |-> parentStep,
          id |-> StepKey(index, parentStep)])

\* registerStep: upsert in the per-feature step map.
RegisterStepMap(featureId, index, parentStep, stepData) ==
  [flowSteps EXCEPT ![featureId] =
     MapSet(@, StepEntry(index, parentStep, stepData))]

\* Variant of unregisterStep that drops the feature's whole step map.
DropStepMap(featureId, index, parentStep) ==
  [flowSteps EXCEPT ![featureId] = <<>>]

\* unregisterStep: delete the key; an emptied map is dropped.
UnregisterStepMap(featureId, index, parentStep) ==
  [flowSteps EXCEPT ![featureId] = MapDelete(@, StepKey(index, parentStep))]

\* Array.prototype.sort((a, b) => a.index - b.index), by selection of the
\* first minimum (stable).
RECURSIVE MinPos(_, _, _)
MinPos(seq, i, best) ==
  IF i > Len(seq) THEN best
  ELSE MinPos(seq, i + 1, IF seq[i].index < seq[best].index THEN i ELSE best)

\* A sort that leaves the steps in Map (registration) order.
Unsorted(seq) == seq

RECURSIVE SortByIndex(_)
SortByIndex(seq) ==
  IF seq = <<>> THEN <<>>
  ELSE LET m == MinPos(seq, 1, 1)
       IN <<seq[m]>> \o SortByIndex(SeqFilterNot(seq, m))

TopLevel(allSteps) ==
  SortByIndex(SelectSeq(allSteps, LAMBDA s : s.parentStep = NoParent))

ChildrenOf(allSteps, step) ==
  SortByIndex(SelectSeq(allSteps, LAMBDA s : s.parentStep = step.index))

\* buildFlow: top-level steps by index, each followed by its children.
BuildFlow(featureId) ==
  LET allSteps == flowSteps[featureId]
      top == TopLevel(allSteps)
  IN Flatten([i \in 1..Len(top) |-> <<top[i]>> \o ChildrenOf(allSteps, top[i])])

\* --------------------------------------------------- registry: snapshot

\* Variant of the shim's check that only asks for an entry.
CheckHasEntry(id) == MapHas(features, id)

\* screen.check() of a snapshot entry, evaluated against the live registry.
ScreenCheckGhost(id) ==
  ~(MapHas(features, id) /\ MapGet(features, id)._ghost)

ScreenCheckPlain(id) == MapHas(features, id)

\* The screen shim is a token: "here" when check() is true, "away" when false.
ScreenShim(ok) == IF ok THEN "here" ELSE "away"

SnapshotEntryGhost(feature) ==
  [id |-> feature.id,
   name |-> feature.name,
   description |-> feature.description,
   selector |-> OrS(feature.selector, NULL),
   route |-> OrS(feature.route, NULL),
   advanceOn |-> OrS(feature.advanceOn, NULL),
   waitFor |-> OrS(feature.waitFor, NULL),
   _ghost |-> feature._ghost,
   flow |-> BuildFlow(feature.id),
   screen |-> ScreenShim(ScreenCheckGhost(feature.id)),
   screenWaitFor |-> OrS(feature.navigateWaitFor, OrS(feature.selector, NULL))]

SnapshotEntryPlain(feature) ==
  [id |-> feature.id,
   name |-> feature.name,
   description |-> feature.description,
   selector |-> feature.selector,
   route |-> OrS(feature.route, NULL),
   advanceOn |-> OrS(feature.advanceOn, NULL),
   waitFor |-> OrS(feature.waitFor, NULL),
   flow |-> BuildFlow(feature.id),
   screen |-> ScreenShim(ScreenCheckPlain(feature.id)),
   screenWaitFor |-> OrS(feature.navigateWaitFor, OrS(feature.selector, NULL))]

\* snapshot(): one plain record per registry entry, in Map order.
snapshot ==
  [i \in 1..Len(features) |->
     IF variant = "ghost" THEN SnapshotEntryGhost(features[i])
     ELSE SnapshotEntryPlain(features[i])]

\* isRegistered(id)
isRegistered(id) ==
  IF variant = "ghost"
    THEN MapHas(features, id) /\ ~MapGet(features, id)._ghost
    ELSE MapHas(features, id)

\* ---------------------------------------------------- registry: actions

Variants == {"ghost", "plain"}

\* The functions that may be passed to subscribe.
ListenerIds == {1, 2}

\* A call that invokes no listener.
Silent == [l \in ListenerIds |-> 0]

\* Variant of notify that invokes nobody.
NotifyNobody(subscribed) == Silent

\* notify(): listeners.forEach(fn => fn()), each member of the Set once.
notify(subscribed) ==
  [l \in ListenerIds |-> IF l \in subscribed THEN 1 ELSE 0]

NoCall == [op |-> "none", id |-> NoId]

RegInit ==
  /\ variant \in Variants
  /\ features = <<>>
  /\ flowSteps = [id \in FeatureIds |-> <<>>]
  /\ lastReg = NoCall
  /\ listeners = {}
  /\ notes = Silent
  /\ snappedLive = {}

RegisterFeatureCall(feature) ==
  /\ features' = IF variant = "ghost" THEN RegisterFeatureGhost(feature)
                 ELSE RegisterFeaturePlain(feature)
  /\ lastReg' = [op |-> "registerFeature", id |-> feature.id]
  /\ notes' = notify(listeners)
  /\ UNCHANGED <<variant, flowSteps, listeners, snappedLive>>

registerFeature(feature) ==
  /\ RegisterFeatureCall(feature)
  /\ UNCHANGED <<configFeatures, mergeVars, tourVars, aiVars>>

UnregisterFeatureCall(id) ==
  /\ IF variant = "ghost"
       THEN IF ~MapHas(features, id)
              THEN /\ notes' = Silent
                   /\ UNCHANGED <<features, flowSteps>>
              ELSE /\ features' = UnregisterFeatureGhost(id)
                   /\ flowSteps' = [flowSteps EXCEPT ![id] = <<>>]
                   /\ notes' = notify(listeners)
       ELSE /\ features' = UnregisterFeaturePlain(id)
            /\ flowSteps' = [flowSteps EXCEPT ![id] = <<>>]
            /\ notes' = notify(listeners)
  /\ lastReg' = [op |-> "unregisterFeature", id |-> id]
  /\ UNCHANGED <<variant, listeners, snappedLive>>

unregisterFeature(id) ==
  /\ UnregisterFeatureCall(id)
  /\ UNCHANGED <<configFeatures, mergeVars, tourVars, aiVars>>

RegisterStepCall(featureId, index, parentStep) ==
  /\ \/ MapHas(flowSteps[featureId], StepKey(index, parentStep))
     \/ Len(flowSteps[featureId]) < MaxFlowSteps
  /\ flowSteps' =
       RegisterStepMap(featureId, index, parentStep, StepData(index, parentStep))
  /\ lastReg' = [op |-> "registerStep", id |-> featureId]
  /\ notes' = notify(listeners)
  /\ UNCHANGED <<variant, features, listeners, snappedLive>>

registerStep(featureId, index, parentStep) ==
  /\ RegisterStepCall(featureId, index, parentStep)
  /\ UNCHANGED <<configFeatures, mergeVars, tourVars, aiVars>>

UnregisterStepCall(featureId, index, parentStep) ==
  /\ flowSteps' = IF flowSteps[featureId] = <<>> THEN flowSteps
                  ELSE UnregisterStepMap(featureId, index, parentStep)
  /\ lastReg' = [op |-> "unregisterStep", id |-> featureId]
  /\ notes' = IF flowSteps[featureId] = <<>> THEN Silent
              ELSE notify(listeners)
  /\ UNCHANGED <<variant, features, listeners, snappedLive>>

unregisterStep(featureId, index, parentStep) ==
  /\ UnregisterStepCall(featureId, index, parentStep)
  /\ UNCHANGED <<configFeatures, mergeVars, tourVars, aiVars>>

\* subscribe(fn): listeners.add(fn)
subscribe(fn) ==
  /\ listeners' = listeners \cup {fn}
  /\ lastReg' = [op |-> "subscribe", id |-> NoId]
  /\ notes' = Silent
  /\ UNCHANGED <<variant, features, flowSteps, snappedLive>>
  /\ UNCHANGED <<configFeatures, mergeVars, tourVars, aiVars>>

\* The function subscribe(fn) returned is called: listeners.delete(fn)
unsubscribe(fn) ==
  /\ fn \in listeners
  /\ listeners' = listeners \ {fn}
  /\ lastReg' = [op |-> "unsubscribe", id |-> NoId]
  /\ notes' = Silent
  /\ UNCHANGED <<variant, features, flowSteps, snappedLive>>
  /\ UNCHANGED <<configFeatures, mergeVars, tourVars, aiVars>>

\* screen.check() of a snapshot entry for `id`, called now.
ScreenCheck(id) ==
  IF variant = "ghost" THEN ScreenCheckGhost(id) ELSE ScreenCheckPlain(id)

\* A caller takes snapshot() and keeps the entries (and their shims).
TakeSnapshot ==
  /\ snappedLive' =
       snappedLive \cup {snapshot[k].id : k \in
                           {j \in 1..Len(snapshot) :
                              ~Get(snapshot[j], "_ghost", FALSE)}}
  /\ snappedLive' # snappedLive
  /\ lastReg' = [op |-> "snapshot", id |-> NoId]
  /\ notes' = Silent
  /\ UNCHANGED <<variant, features, flowSteps, listeners>>
  /\ UNCHANGED <<configFeatures, mergeVars, tourVars, aiVars>>

RegNext ==
  \/ \E feature \in FeatureInputs : registerFeature(feature)
  \/ \E id \in FeatureIds : unregisterFeature(id)
  \/ \E id \in StepFeatureIds, index \in StepIndexes, parentStep \in StepParents :
       registerStep(id, index, parentStep)
  \/ \E id \in StepFeatureIds, index \in StepIndexes, parentStep \in StepParents :
       unregisterStep(id, index, parentStep)
  \/ \E fn \in ListenerIds : subscribe(fn)
  \/ \E fn \in ListenerIds : unsubscribe(fn)

\* ------------------------------------------------------ feature-map merge

\* state.config.features.find(f => f.id === id); 0 when there is none.
FeatureIndex(id) == FindIndexById(configFeatures, id)

MergeBase(feature) ==
  [waitFor |-> OrS(GetS(feature, "waitFor"), NULL),
   advanceOn |-> OrS(GetS(feature, "advanceOn"), NULL),
   validate |-> OrS(GetS(feature, "validate"), NULL),
   screen |-> OrS(GetS(feature, "screen"), NULL),
   flow |-> GetT(feature, "flow"),
   route |-> OrS(GetS(feature, "route"), NULL)]

\* Variant of the selector rule in which the step's own selector comes first.
StepFirstSelector(feature, step) ==
  OrS(GetS(step, "selector"), GetS(feature, "selector"))

\* selector: feature.selector || step.selector
MergedSelector(feature, step) ==
  OrS(GetS(feature, "selector"), GetS(step, "selector"))

\* mergeWithFeature(step)
mergeWithFeature(step) ==
  LET i == FeatureIndex(OrT(GetT(step, "_parentId"), GetT(step, "id")))
  IN IF i = 0 THEN step
     ELSE Spread(Spread(MergeBase(configFeatures[i]), step),
                 [selector |-> MergedSelector(configFeatures[i], step)])

\* ----------------------------------------------------------- flow expansion

\* `${aiStep.id}-flow-${i}`
FlowStepId(id, i) == id \o <<"flow", i>>

\* A title rule that repeats the AI step's title on every flow step.
SameTitle(title, i, n) == title

\* `${aiStep.title} (${i + 1}/${n})`
FlowStepTitle(title, i, n) == IF i = 0 THEN title ELSE title \o <<i + 1, n>>

\* `Step ${i + 1} of ${n}: continue with the action highlighted below.`
FlowStepText(text, i, n) == IF i = 0 THEN text ELSE <<"Step", i + 1, n>>

\* expandFlowSteps(aiStep, feature); entry i of the flow is flow[i + 1].
expandFlowSteps(aiStep, feature) ==
  LET flow == GetT(feature, "flow")
      n == Len(flow)
  IN IF n = 0 THEN <<aiStep>>
     ELSE [k \in 1..n |->
            [id |-> FlowStepId(GetT(aiStep, "id"), k - 1),
             title |-> FlowStepTitle(GetT(aiStep, "title"), k - 1, n),
             text |-> FlowStepText(GetT(aiStep, "text"), k - 1, n),
             position |-> OrS(GetS(aiStep, "position"), "bottom"),
             selector |-> OrS(GetS(flow[k], "selector"), NULL),
             waitFor |-> OrS(GetS(flow[k], "waitFor"), NULL),
             advanceOn |-> OrS(GetS(flow[k], "advanceOn"), NULL),
             _parentId |-> GetT(aiStep, "id")]]

\* runTour: steps.map(step => ({...mergeWithFeature(step), _highlightStyle}))
MergedSteps(steps) ==
  [k \in 1..Len(steps) |->
     Spread(mergeWithFeature(steps[k]), [_highlightStyle |-> "default"])]

\* An expansion that keeps every merged step as one step.
NoExpansion(step) == <<step>>

\* runTour: one merged step expanded against the feature found by step.id.
ExpandOne(step) ==
  LET i == FeatureIndex(GetT(step, "id"))
  IN IF i = 0 THEN <<step>> ELSE expandFlowSteps(step, configFeatures[i])

\* runTour: mergedSteps.flatMap(...)
ExpandedSteps(mergedSteps) ==
  Flatten([k \in 1..Len(mergedSteps) |-> ExpandOne(mergedSteps[k])])

\* ------------------------------------------------- configs and AI steps

FlowAB ==
  << [selector |-> ".a", waitFor |-> NULL, advanceOn |-> NULL, index |-> 0],
     [selector |-> ".b", waitFor |-> "#wb", advanceOn |-> NULL, index |-> 1] >>

\* A live registry entry as snapshot() renders it.
LiveF ==
  [id |-> <<"f">>, name |-> "F", description |-> "does f", selector |-> "#f",
   route |-> NULL, advanceOn |-> "click@#f", waitFor |-> NULL, _ghost |-> FALSE,
   flow |-> <<>>, screen |-> "here", screenWaitFor |-> "#f"]

\* A live entry with a two-step flow.
LiveG ==
  [id |-> <<"g">>, name |-> "G", description |-> "does g", selector |-> "#g",
   route |-> NULL, advanceOn |-> NULL, waitFor |-> NULL, _ghost |-> FALSE,
   flow |-> FlowAB, screen |-> "here", screenWaitFor |-> "#g"]

\* A ghost entry: selector, advanceOn and waitFor nulled, check() false.
GhostF ==
  [id |-> <<"f">>, name |-> "F", description |-> "does f", selector |-> NULL,
   route |-> "/a", advanceOn |-> NULL, waitFor |-> NULL, _ghost |-> TRUE,
   flow |-> <<>>, screen |-> "away", screenWaitFor |-> NULL]

\* A feature of a hand-written config (init without the React binding): no
\* screen, no flow.
BareP ==
  [id |-> <<"p">>, name |-> "P", selector |-> "#p"]

MergeConfigs ==
  { <<>>, <<LiveF>>, <<LiveF, LiveG>>, <<GhostF, LiveG>>, <<BareP, LiveG>> }

AISteps ==
  { [id |-> <<"f">>, title |-> <<"tf">>, text |-> <<"xf">>],
    [id |-> <<"f">>, title |-> <<"tf">>, text |-> <<"xf">>,
     selector |-> "#ai", position |-> "top"],
    [id |-> <<"g">>, title |-> <<"tg">>, text |-> <<"xg">>],
    [id |-> <<"g">>, title |-> <<"tg">>, text |-> <<"xg">>,
     selector |-> "#ai", position |-> "left"],
    [id |-> <<"p">>, title |-> <<"tp">>, text |-> <<"xp">>,
     selector |-> "#p"],
    [id |-> <<"p">>, title |-> <<"tp">>, text |-> <<"xp">>,
     selector |-> "#ai", waitFor |-> "#aiw"],
    [title |-> <<"tn">>, text |-> <<"xn">>, selector |-> "#n"],
    [id |-> <<"zz">>, title |-> <<"tz">>, text |-> <<"xz">>,
     selector |-> "#ai"] }

NoStep == [id |-> NoId]

\* ------------------------------------------------------- merge harness

MergeInit ==
  /\ configFeatures \in MergeConfigs
  /\ mStep \in AISteps
  /\ mMerged = NoStep
  /\ mExpanded = <<>>
  /\ mPc = "input"

DoMerge ==
  /\ mPc = "input"
  /\ mMerged' = mergeWithFeature(mStep)
  /\ mPc' = "merged"
  /\ UNCHANGED <<configFeatures, mStep, mExpanded>>
  /\ UNCHANGED <<regVars, tourVars, aiVars>>

DoExpand ==
  /\ mPc = "merged"
  /\ mExpanded' = ExpandOne(Spread(mMerged, [_highlightStyle |-> "default"]))
  /\ mPc' = "expanded"
  /\ UNCHANGED <<configFeatures, mStep, mMerged>>
  /\ UNCHANGED <<regVars, tourVars, aiVars>>

MergeNext == DoMerge \/ DoExpand

\* ============================================================ tour runner

\* The shared mutable state as one value, so that a handler's statements
\* compose in order.
S ==
  [tour |-> tour, activeTour |-> activeTour, pausedSteps |-> pausedSteps,
   pausedIndex |-> pausedIndex, cleanups |-> cleanups, misfired |-> misfired,
   calls |-> calls, resumePrompt |-> resumePrompt, isOpen |-> isOpen]

Commit(st) ==
  /\ tour' = st.tour
  /\ activeTour' = st.activeTour
  /\ pausedSteps' = st.pausedSteps
  /\ pausedIndex' = st.pausedIndex
  /\ cleanups' = st.cleanups
  /\ misfired' = st.misfired
  /\ calls' = st.calls
  /\ resumePrompt' = st.resumePrompt
  /\ isOpen' = st.isOpen

CallIds(st) == 1..Len(st.calls)

\* A runTour call suspended at one of its awaits.
InProgress(call) == call.pc \in {"load", "screen"}

\* A presenter tour that was started and has neither completed nor been
\* cancelled: its step is on screen and its listeners are installed.
Live(st, t) ==
  /\ t \in CallIds(st)
  /\ st.calls[t].pc = "started"
  /\ ~st.calls[t].done

LiveSet(st) == {t \in CallIds(st) : Live(st, t)}

\* -------------------------------------------------------------- state.js

\* Variant of the clearing statement that leaves the list as it is.
KeptCleanups(list) == list

\* runAndClearCleanups: cleanups = []
ClearedCleanups(list) == <<>>

\* A cleanup callback is [owner, during, runs]: the runTour call (and tour) it
\* was registered for, whether that tour was on screen when it was registered,
\* and how many times it has been invoked.
InvokeAll(list) == [k \in 1..Len(list) |-> [list[k] EXCEPT !.runs = @ + 1]]

Range(list) == {list[k] : k \in 1..Len(list)}

\* runAndClearCleanups: cleanups.forEach(fn => fn()); cleanups = []
runAndClearCleanups(st) ==
  LET ran == InvokeAll(st.cleanups)
      kept == ClearedCleanups(ran)
  IN [st EXCEPT !.cleanups = kept,
                !.misfired = @ \cup {e \in Range(ran) \ Range(kept) : e.runs # 1}]

\* pushCleanup(fn), for a callback registered on behalf of `owner`.
pushCleanup(st, owner) ==
  [st EXCEPT !.cleanups =
     Append(@, [owner |-> owner, during |-> Live(st, owner), runs |-> 0])]

\* ---------------------------------------------------------------- chat.js

togglePanel(st) == [st EXCEPT !.isOpen = ~@]

\* showResumeButton(fromIndex)
showResumeButton(st) ==
  LET shown == [st EXCEPT !.resumePrompt = TRUE]
  IN IF ~shown.isOpen THEN togglePanel(shown) ELSE shown

\* ----------------------------------------------------- tour.js: handlers

\* tour.addStep({ id: step.id || `sai-step-${i}`, ... }), i counted from 0.
ShepherdStepId(step, i) == OrT(GetT(step, "id"), <<"sai-step", i>>)

\* The options runTour hands to tour.addStep for step i (from 0).
AddStepOptions(step, i) ==
  [id |-> ShepherdStepId(step, i),
   title |-> GetT(step, "title"),
   text |-> GetT(step, "text"),
   attachTo |-> GetS(step, "selector")]

\* expandedSteps.forEach((step, i) => tour.addStep({...})): the steps of the
\* presenter's tour, in the order they were added.
AddSteps(expanded) ==
  [k \in 1..Len(expanded) |-> AddStepOptions(expanded[k], k - 1)]

\* hasAuto = !!(step.advanceOn?.selector && step.advanceOn?.event)
HasAuto(step) == GetS(step, "advanceOn") # NULL

\* tour.on('cancel'): expandedSteps.findIndex(s => s.id === currentStepEl.id),
\* counted from 0, -1 when no step matches; 0 when no step is current.
CurrentIdx(call) ==
  IF call.cur = 0 THEN 0
  ELSE FindIndexById(call.expanded,
                     ShepherdStepId(call.expanded[call.cur], call.cur - 1)) - 1

Max0(n) == IF n < 0 THEN 0 ELSE n

\* tour.on('cancel', ...)
CancelHandler(st, t) ==
  LET cleaned == runAndClearCleanups(st)
  IN showResumeButton(
       [cleaned EXCEPT !.pausedSteps = st.calls[t].expanded,
                       !.pausedIndex = Max0(CurrentIdx(st.calls[t])),
                       !.tour = 0])

\* Variant of the complete handler that leaves the paused snapshot alone.
CompleteKeepsSnapshot(st, t) ==
  [runAndClearCleanups(st) EXCEPT !.tour = 0]

\* tour.on('complete', ...)
CompleteHandler(st, t) ==
  [runAndClearCleanups(st) EXCEPT !.pausedSteps = NoSteps,
                                  !.pausedIndex = 0,
                                  !.tour = 0]

\* makeBeforeShowPromise: whether the hook of `step` can reach a wait that
\* registers a cleanup (waitForRouteChange or waitForElement).
HookNeedsWait(step) ==
  LET fresh == mergeWithFeature(step)
  IN \/ GetS(fresh, "route") # NULL
     \/ GetS(fresh, "waitFor") # NULL
     \/ GetS(fresh, "screen") = "away"

\* A tour that has ended: nothing reads its steps again; only a beforeShow
\* hook that is still awaiting can act on its behalf.
Finished(call) ==
  [call EXCEPT !.steps = <<>>, !.expanded = <<>>, !.tourSteps = <<>>,
               !.cur = 0, !.done = TRUE, !.error = NULL, !.prev = 0,
               !.torn = 0]

\* Presenter: tour.cancel() fires 'cancel', then the tour is inactive.
ShepherdCancel(st, t) ==
  [CancelHandler(st, t) EXCEPT
     !.activeTour = 0, !.calls[t] = Finished(@)]

\* Presenter: tour.complete() fires 'complete', then the tour is inactive.
\* swept keeps the number of callbacks its handler found in state.cleanups.
ShepherdComplete(st, t) ==
  [CompleteHandler(st, t) EXCEPT
     !.activeTour = 0,
     !.calls[t] = [Finished(@) EXCEPT !.swept = Len(st.cleanups)]]

\* Presenter: show step k of tour t; the tour showing a step becomes
\* Shepherd.activeTour, the step's beforeShow hook starts, and the step's
\* element is built anew (without an error annotation).
ShepherdShow(st, t, k) ==
  [st EXCEPT !.activeTour = t,
             !.calls[t].cur = k,
             !.calls[t].error = NULL,
             !.calls[t].hookPending = HookNeedsWait(st.calls[t].expanded[k])]

\* Presenter: tour.next() shows the following step, or completes on the last.
ShepherdNext(st, t) ==
  IF st.calls[t].cur = Len(st.calls[t].expanded)
    THEN ShepherdComplete(st, t)
    ELSE ShepherdShow(st, t, st.calls[t].cur + 1)

\* --------------------------------------------------------- tour.js: runTour

\* The tour a new call is about to replace without overlap: the one live
\* tour, held in state.tour, when no other runTour call is in progress.
PriorTour(st) ==
  IF /\ st.tour # 0
     /\ LiveSet(st) = {st.tour}
     /\ \A k \in CallIds(st) : ~InProgress(st.calls[k])
    THEN st.tour
    ELSE 0

\* A runTour call: its position, its argument, its local values and its
\* tour.  prev is the tour it replaces without overlap (0 when there is none
\* or when another call is made before this one has started its tour), torn
\* the number of that tour's callbacks its teardown ran.
NewCallRecord(st, steps, origin) ==
  [pc |-> "load", steps |-> steps, merged |-> <<>>, expanded |-> <<>>,
   tourSteps |-> <<>>, cur |-> 0, done |-> FALSE, hookPending |-> FALSE,
   error |-> NULL, origin |-> origin, prev |-> PriorTour(st), torn |-> 0,
   swept |-> 0]

\* runTour(steps) up to `await ensureShepherd()`.
InvokeRunTour(st, steps, origin) ==
  [st EXCEPT !.calls =
     Append([k \in CallIds(st) |->
               IF InProgress(st.calls[k])
                 THEN [st.calls[k] EXCEPT !.prev = 0]
                 ELSE st.calls[k]],
            NewCallRecord(st, steps, origin))]

\* runTour lines 227-229: cancel the prior tour, run cleanups, clear handle.
ReplacePrior(st) ==
  LET cancelled == IF st.tour # 0 THEN ShepherdCancel(st, st.tour) ELSE st
  IN [runAndClearCleanups(cancelled) EXCEPT !.tour = 0]

\* The pending callbacks that were registered while tour t was live.
DuringCount(st, t) ==
  Cardinality({k \in 1..Len(st.cleanups) :
                 st.cleanups[k].owner = t /\ st.cleanups[k].during})

\* Call i notes how many callbacks of the tour it replaces its teardown ran.
Torn(st, i) == [st EXCEPT !.calls[i].torn = DuringCount(st, st.calls[i].prev)]

\* The cleanups wireAdvanceOn pushes while the steps are added, in order.
RECURSIVE WireAll(_, _, _, _)
WireAll(st, t, expanded, k) ==
  IF k > Len(expanded) THEN st
  ELSE WireAll(IF HasAuto(expanded[k]) THEN pushCleanup(st, t) ELSE st,
               t, expanded, k + 1)

AutoCount(expanded) ==
  Cardinality({k \in 1..Len(expanded) : HasAuto(expanded[k])})

\* runTour lines 249-343: expand, create the tour, store it, add the steps,
\* start it (the presenter shows the first step).
BuildAndStart(st, i, merged) ==
  LET expanded == ExpandedSteps(merged)
      created == [st EXCEPT !.tour = i,
                            !.calls[i].pc = "started",
                            !.calls[i].merged = <<>>,
                            !.calls[i].expanded = expanded,
                            !.calls[i].tourSteps = AddSteps(expanded)]
      wired == WireAll(created, i, expanded, 1)
  IN ShepherdShow(wired, i, 1)

\* state.config.features.find(f => f.id === mergedSteps[0]?.id)
FirstFeature(merged) == FeatureIndex(GetT(merged[1], "id"))

\* ------------------------------------------------------ tour step lists

\* The config of the tour runner model: a live feature with advanceOn, a
\* live feature with a flow, and a feature without a screen.
TourConfig == <<LiveF, LiveG, BareP>>

StepF == [id |-> <<"f">>, title |-> <<"tf">>, text |-> <<"xf">>]

StepG == [id |-> <<"g">>, title |-> <<"tg">>, text |-> <<"xg">>]

StepP == [id |-> <<"p">>, title |-> <<"tp">>, text |-> <<"xp">>]

StepN == [title |-> <<"tn">>, text |-> <<"xn">>, selector |-> "#n"]

TourStepLists ==
  { <<>>, <<StepF>>, <<StepG, StepP>>, <<StepP, StepP>>, <<StepN, StepN>> }

\* ------------------------------------------------------------ tour actions

TourInit ==
  /\ tour = 0
  /\ activeTour = 0
  /\ pausedSteps = NoSteps
  /\ pausedIndex = 0
  /\ cleanups = <<>>
  /\ misfired = {}
  /\ calls = <<>>
  /\ resumePrompt = FALSE
  /\ isOpen = FALSE

\* runTour(steps), called through the public API.
RunTour(steps) ==
  /\ Len(calls) < MaxCalls
  /\ Commit(InvokeRunTour(S, steps, "api"))
  /\ UNCHANGED <<regVars, configFeatures, mergeVars, aiVars>>

\* runTour resumes after `await ensureShepherd()` and runs to its next await
\* (the legacy screen wait of the first step) or to tour.start().
RunTourLoaded(i) ==
  /\ i \in CallIds(S)
  /\ calls[i].pc = "load"
  /\ LET replaced == ReplacePrior(Torn(S, i))
         steps == calls[i].steps
         merged == MergedSteps(steps)
         first == FirstFeature(merged)
         away == configFeatures[first].screen = "away"
         waitSelector == OrS(GetS(configFeatures[first], "screenWaitFor"),
                             GetS(configFeatures[first], "selector"))
     IN IF steps = <<>>
          THEN Commit([replaced EXCEPT
                        !.calls[i] = [Finished(@) EXCEPT !.pc = "returned"]])
        ELSE IF first # 0 /\ GetS(configFeatures[first], "screen") # NULL
          THEN \E present \in BOOLEAN :
                 LET waiting == away /\ waitSelector # NULL /\ ~present
                     parked == [replaced EXCEPT !.calls[i].pc = "screen",
                                                !.calls[i].merged = merged]
                 IN /\ waiting => Len(replaced.cleanups) < MaxCleanups
                    /\ Commit(IF waiting THEN pushCleanup(parked, i)
                              ELSE parked)
        ELSE /\ Len(replaced.cleanups) + AutoCount(ExpandedSteps(merged))
                  <= MaxCleanups
             /\ Commit(BuildAndStart(replaced, i, merged))
  /\ UNCHANGED <<regVars, configFeatures, mergeVars, aiVars>>

\* runTour resumes after `await ensureOnCorrectScreen(firstFeature)`.
RunTourScreened(i) ==
  /\ i \in CallIds(S)
  /\ calls[i].pc = "screen"
  /\ Len(cleanups) + AutoCount(ExpandedSteps(calls[i].merged)) <= MaxCleanups
  /\ Commit(BuildAndStart(S, i, calls[i].merged))
  /\ UNCHANGED <<regVars, configFeatures, mergeVars, aiVars>>

\* The user presses Next (Done on the last step) of a tour on screen.
NextClick(t) ==
  /\ Live(S, t)
  /\ Commit(ShepherdNext(S, t))
  /\ UNCHANGED <<regVars, configFeatures, mergeVars, aiVars>>

\* The user presses Back; the button exists from the second step on.
BackClick(t) ==
  /\ Live(S, t)
  /\ calls[t].cur > 1
  /\ Commit(ShepherdShow(S, t, calls[t].cur - 1))
  /\ UNCHANGED <<regVars, configFeatures, mergeVars, aiVars>>

\* The user presses Pause (or the cancel icon): tour.cancel().
PauseClick(t) ==
  /\ Live(S, t)
  /\ Commit(ShepherdCancel(S, t))
  /\ UNCHANGED <<regVars, configFeatures, mergeVars, aiVars>>

\* stepComplete()
AfterStepComplete(st) ==
  IF st.tour # 0 /\ st.activeTour = st.tour
    THEN ShepherdNext(st, st.tour)
    ELSE st

StepComplete ==
  /\ Commit(AfterStepComplete(S))
  /\ UNCHANGED <<regVars, configFeatures, mergeVars, aiVars>>

\* Messages handed to stepFail; NULL stands for no message.
FailMessages == {NULL, "oops"}

\* stepFail(message): on the element of the current step of the active tour,
\* the old .sai-step-error is removed and, with a message, a new one added.
\* rendered tells whether the step's element exists (it does not while the
\* step's beforeShow hook is still waiting).
AfterStepFail(st, message, rendered) ==
  IF /\ st.tour # 0 /\ st.activeTour = st.tour
     /\ st.calls[st.tour].cur # 0
     /\ rendered
    THEN [st EXCEPT !.calls[st.tour].error = message]
    ELSE st

StepFail(message, rendered) ==
  /\ Commit(AfterStepFail(S, message, rendered))
  /\ (tour # 0 /\ calls[tour].cur # 0
        /\ ~HookNeedsWait(calls[tour].expanded[calls[tour].cur])) => rendered
  /\ UNCHANGED <<regVars, configFeatures, mergeVars, aiVars>>

\* isPaused(): !!state.pausedSteps
isPaused == pausedSteps # NoSteps

\* isActive(): !!(state.tour?.isActive())
isActive == tour # 0 /\ activeTour = tour

\* cancelTour()
AfterCancelTour(st) ==
  LET unpaused == [st EXCEPT !.pausedSteps = NoSteps, !.pausedIndex = 0]
      cancelled == IF unpaused.tour # 0
                     THEN ShepherdCancel(unpaused, unpaused.tour)
                     ELSE unpaused
  IN [runAndClearCleanups(cancelled) EXCEPT
        !.tour = 0, !.resumePrompt = FALSE]

CancelTour ==
  /\ Commit(AfterCancelTour(S))
  /\ UNCHANGED <<regVars, configFeatures, mergeVars, aiVars>>

\* steps.slice(idx)
Slice(steps, idx) == SubSeq(steps, idx + 1, Len(steps))

\* Variant of resume that leaves the snapshot in place.
KeptSnapshot(st) == st.pausedSteps

\* The snapshot is cleared before runTour is called with the stored slice.
ClearedSnapshot(st) == NoSteps

\* resumeTour() and the Resume button share these statements.
ResumeFrom(st) ==
  LET cleared == [st EXCEPT !.pausedSteps = ClearedSnapshot(st),
                            !.pausedIndex = 0,
                            !.resumePrompt = FALSE]
      closed == IF cleared.isOpen THEN togglePanel(cleared) ELSE cleared
  IN InvokeRunTour(closed, Slice(st.pausedSteps, st.pausedIndex), "resume")

\* resumeTour()
ResumeTour ==
  /\ IF pausedSteps = NoSteps
       THEN UNCHANGED tourVars
       ELSE /\ Len(calls) < MaxCalls
            /\ Commit(ResumeFrom(S))
  /\ UNCHANGED <<regVars, configFeatures, mergeVars, aiVars>>

\* The click handler of the chat's Resume button.
ResumeClick ==
  /\ resumePrompt
  /\ IF pausedSteps = NoSteps
       THEN Commit([S EXCEPT !.resumePrompt = FALSE])
       ELSE /\ Len(calls) < MaxCalls
            /\ Commit(ResumeFrom(S))
  /\ UNCHANGED <<regVars, configFeatures, mergeVars, aiVars>>

\* handleSend(text) up to `await callAI(text)`: a new message clears any
\* pause state.
HandleSendBegin ==
  /\ Commit([S EXCEPT !.pausedSteps = NoSteps, !.pausedIndex = 0,
                      !.resumePrompt = FALSE])
  /\ UNCHANGED <<regVars, configFeatures, mergeVars, aiVars>>

\* The beforeShow hook of the current step of tour t reaches its wait; the
\* hook may still be running after the tour has ended.
HookWait(t) ==
  /\ t \in CallIds(S)
  /\ calls[t].pc = "started"
  /\ calls[t].hookPending
  /\ Len(cleanups) < MaxCleanups
  /\ Commit([pushCleanup(S, t) EXCEPT !.calls[t].hookPending = FALSE])
  /\ UNCHANGED <<regVars, configFeatures, mergeVars, aiVars>>

TourNext ==
  \/ \E steps \in TourStepLists : RunTour(steps)
  \/ \E i \in 1..MaxCalls : RunTourLoaded(i)
  \/ \E i \in 1..MaxCalls : RunTourScreened(i)
  \/ \E t \in 1..MaxCalls : NextClick(t)
  \/ \E t \in 1..MaxCalls : BackClick(t)
  \/ \E t \in 1..MaxCalls : PauseClick(t)
  \/ \E t \in 1..MaxCalls : HookWait(t)
  \/ StepComplete
  \/ CancelTour
  \/ ResumeTour
  \/ ResumeClick
  \/ HandleSendBegin

\* ------------------------------------------------ tour.js: wireAdvanceOn

\* DOM events the model dispatches to auto-advance listeners.
MaxEvents == 1

\* The advanceOn values of the model's features: an event on a target that
\* matches the selector.
AdvanceOns == {"click@#f"}

\* Tours with steps that share an advanceOn, and with a step before it.
AdvanceStepLists == { <<StepF, StepF, StepP>>, <<StepP, StepF>> }

\* The document listeners wireAdvanceOn added for tour t are in place until
\* runAndClearCleanups runs their removal: those are the callbacks pushed
\* while the tour's steps were added.
Wired(st, t) ==
  \E k \in 1..Len(st.cleanups) :
    st.cleanups[k].owner = t /\ st.cleanups[k].during

\* The steps of tour t whose listener's handler matches an event `a`.
Matching(st, t, a) ==
  IF Wired(st, t)
    THEN {k \in 1..Len(st.calls[t].expanded) :
            GetS(st.calls[t].expanded[k], "advanceOn") = a}
    ELSE {}

\* The setTimeout calls of the handlers an event runs, in listener order;
\* matched: the handler's step was the current one when the event came.
RECURSIVE Scheduled(_, _, _, _, _)
Scheduled(st, t, k, a, e) ==
  IF t > Len(st.calls) THEN <<>>
  ELSE IF k > Len(st.calls[t].expanded) THEN Scheduled(st, t + 1, 1, a, e)
  ELSE (IF k \in Matching(st, t, a)
          THEN <<[tour |-> t, ev |-> e, matched |-> st.calls[t].cur = k]>>
          ELSE <<>>)
       \o Scheduled(st, t, k + 1, a, e)

\* A timer that calls next() whatever the tour's state.
TimerAdvancesAnyway(st, t) == ShepherdNext(st, t)

\* if (tour && !tour.isActive()) return; tour.next();
TimerAdvances(st, t) ==
  IF st.activeTour = t THEN ShepherdNext(st, t) ELSE st

\* A DOM event whose target matches `a` reaches the document: every
\* installed handler for `a` schedules its delayed advance.
DomEvent(a) ==
  /\ Len(adv.events) < MaxEvents
  /\ LET e == Len(adv.events) + 1
         new == Scheduled(S, 1, 1, a, e)
     IN /\ new # <<>>
        /\ adv' = [adv EXCEPT
             !.events = Append(@, [a |-> a, advanced |-> 0, stray |-> FALSE]),
             !.timers = @ \o new]
  /\ UNCHANGED <<aiVariant, provider, config, router, chatBuilt, lastInit,
                 hook, send, messages, aiCalls, parseVars, pathname, planVars,
                 navVars, regVars, configFeatures, mergeVars, tourVars>>

\* The k-th pending timer fires.
AdvanceTimerFires(k) ==
  /\ k \in 1..Len(adv.timers)
  /\ LET timer == adv.timers[k]
         active == activeTour = timer.tour
     IN /\ Commit(TimerAdvances(S, timer.tour))
        /\ adv' = [adv EXCEPT
             !.timers = [j \in 1..(Len(@) - 1) |->
                           IF j < k THEN @[j] ELSE @[j + 1]],
             !.events[timer.ev] =
                [@ EXCEPT !.advanced = IF active THEN @ + 1 ELSE @,
                          !.stray = @ \/ (active /\ ~timer.matched)],
             !.fired = [tour |-> timer.tour, active |-> active]]
  /\ UNCHANGED <<aiVariant, provider, config, router, chatBuilt, lastInit,
                 hook, send, messages, aiCalls, parseVars, pathname, planVars,
                 navVars, regVars, configFeatures, mergeVars>>

AdvanceNext ==
  \/ \E steps \in AdvanceStepLists : RunTour(steps)
  \/ \E i \in 1..MaxCalls : RunTourLoaded(i)
  \/ \E i \in 1..MaxCalls : RunTourScreened(i)
  \/ \E t \in 1..MaxCalls : PauseClick(t)
  \/ \E a \in AdvanceOns : DomEvent(a)
  \/ \E k \in 1..(2 * MaxEvents * MaxCalls) : AdvanceTimerFires(k)

\* ------------------------------------------------------------ core.js: init

\* Arguments of init.  given: an argument was passed (init() runs with {});
\* hasConfig, hasFeatures: opts.config and opts.config.features are there;
\* a missing provider, appName or router is NULL; appName may be the empty
\* string and features the empty array.
InitOpts ==
  [given : {TRUE}, provider : {NULL, "p1", "p2"}, hasConfig : BOOLEAN,
   appName : {NULL, "", "App"}, hasFeatures : BOOLEAN,
   features : {<<>>, TourConfig}, router : {NULL, "navigate"}]
    \cup {[given |-> FALSE, provider |-> NULL, hasConfig |-> FALSE,
           appName |-> NULL, hasFeatures |-> FALSE, features |-> <<>>,
           router |-> NULL]}

\* The value init reads for each option ({} when no argument was passed).
OptProvider(opts) == IF opts.given THEN opts.provider ELSE NULL

OptAppName(opts) ==
  IF opts.given /\ opts.hasConfig THEN opts.appName ELSE NULL

OptHasFeatures(opts) == opts.given /\ opts.hasConfig /\ opts.hasFeatures

\* Variant of the three checks that lets every argument through.
ChecksNothing(opts) == FALSE

\* if (!opts.provider) throw; if (!opts.config?.appName) throw;
\* if (!opts.config?.features) throw.  The empty string is falsy, the empty
\* array is not.
InitThrows(opts) ==
  \/ OptProvider(opts) = NULL
  \/ OptAppName(opts) \in {NULL, ""}
  \/ ~OptHasFeatures(opts)

NoConfig == [appName |-> NULL, router |-> NULL]

NoInit == [opts |-> CHOOSE o \in InitOpts : ~o.given, result |-> "none"]

NoHook ==
  [pc |-> "idle", first |-> FALSE, step |-> [id |-> <<>>],
   fresh |-> [id |-> <<>>], attachTo |-> NULL, log |-> <<>>,
   offRoute |-> FALSE, builtGhost |-> FALSE, auto |-> NULL, waited |-> NULL]

\* The chat before any message was sent.
\* timers: the pending delayed starts; void marks the ones that were pending
\* when cancelTour() was called, voided the runTour calls that were pending
\* then or that such a timer made.
NoSend ==
  [calls |-> <<>>, disabled |-> FALSE, timers |-> <<>>, voided |-> {}]

\* No DOM event has reached an auto-advance listener.
NoAdvance ==
  [events |-> <<>>, timers |-> <<>>, fired |-> [tour |-> 0, active |-> FALSE]]

CoreIdle ==
  /\ hook = NoHook
  /\ send = NoSend
  /\ adv = NoAdvance
  /\ provider = NULL
  /\ config = NoConfig
  /\ router = NULL
  /\ chatBuilt = FALSE
  /\ lastInit = NoInit

\* init(opts): the three checks, then setProvider, setConfig, setRouter and
\* buildChat, which returns at once when the chat is already built.
init(opts) ==
  /\ IF InitThrows(opts)
       THEN /\ lastInit' = [opts |-> opts, result |-> "throws"]
            /\ UNCHANGED <<provider, config, router, chatBuilt,
                           configFeatures>>
       ELSE /\ lastInit' = [opts |-> opts, result |-> "returns"]
            /\ provider' = opts.provider
            /\ config' = [appName |-> opts.appName, router |-> opts.router]
            /\ configFeatures' = opts.features
            /\ router' = opts.router
            /\ chatBuilt' = TRUE
  /\ UNCHANGED <<aiVariant, hook, sideVars, messages, aiCalls, parseVars, pathname,
                 planVars, navVars, regVars, mergeVars, tourVars>>

CoreNext == \E opts \in InitOpts : init(opts)

\* ------------------------------ EventopAIProvider.jsx and _updateConfig

\* The function the provider subscribes to its registry: syncToSDK.
SyncListener == CHOOSE fn \in ListenerIds : \A other \in ListenerIds : fn <= other

\* Arguments of _updateConfig: the keys the partial config has and their
\* values. A router key may hold undefined.
UNDEFINED == "undefined"

Partials ==
  [keys : {{}, {"appName"}, {"router"}}, appName : {"App2"},
   router : {UNDEFINED, "navigate2"}, features : {<<>>}]

\* { ...state.config, ...partial }: state.config apart from its features, and
\* its features.
SpreadConfig(partial) ==
  [config |->
     [appName |-> IF "appName" \in partial.keys THEN partial.appName
                  ELSE config.appName,
      router |-> IF "router" \in partial.keys THEN partial.router
                 ELSE config.router],
   features |-> IF "features" \in partial.keys THEN partial.features
                ELSE configFeatures]

\* Variant of _updateConfig that calls setRouter for every partial.
RouterAlways(partial) ==
  IF config = NoConfig
    THEN [config |-> config, features |-> configFeatures, router |-> router]
    ELSE [config |-> SpreadConfig(partial).config,
          features |-> SpreadConfig(partial).features,
          router |-> IF partial.router # UNDEFINED THEN partial.router
                     ELSE router]

\* _updateConfig(partial): if (!state.config) return;
\* state.setConfig({ ...state.config, ...partial });
\* if (partial.router !== undefined) state.setRouter(partial.router).
\* A partial without the key reads as undefined.
UpdatedConfig(partial) ==
  IF config = NoConfig
    THEN [config |-> config, features |-> configFeatures, router |-> router]
    ELSE [config |-> SpreadConfig(partial).config,
          features |-> SpreadConfig(partial).features,
          router |-> IF "router" \in partial.keys /\ partial.router # UNDEFINED
                       THEN partial.router
                       ELSE router]

\* sdkReady.current: set by boot() right after init has returned.
sdkReady == lastInit.result = "returns"

\* _updateConfig(partial), called by the host or by the provider's router
\* effect.
updateConfig(partial) ==
  /\ config' = UpdatedConfig(partial).config
  /\ configFeatures' = UpdatedConfig(partial).features
  /\ router' = UpdatedConfig(partial).router
  /\ UNCHANGED <<aiVariant, provider, chatBuilt, lastInit, hook, sideVars,
                 messages, aiCalls, parseVars, pathname, planVars, navVars,
                 regVars, mergeVars, tourVars>>

\* The provider's effect subscribes syncToSDK while boot() awaits the import.
ProviderEffect ==
  /\ SyncListener \notin listeners
  /\ subscribe(SyncListener)

\* boot() after the import: init with the registry's snapshot as
\* config.features, sdkReady.current = true, syncToSDK().
ProviderBoot(r) ==
  /\ SyncListener \in listeners
  /\ init([given |-> TRUE, provider |-> "p1", hasConfig |-> TRUE,
           appName |-> "App", hasFeatures |-> TRUE, features |-> snapshot,
           router |-> r])

\* A registry call made through the provider's context: notify() runs
\* syncToSDK, which returns before the SDK is ready and otherwise calls
\* _updateConfig({ features: registry.snapshot() }).
Synced(called) ==
  /\ called
  /\ LET partial == [keys |-> {"features"}, appName |-> NULL,
                     router |-> UNDEFINED, features |-> snapshot']
     IN IF notes'[SyncListener] = 1 /\ sdkReady
          THEN /\ config' = UpdatedConfig(partial).config
               /\ configFeatures' = UpdatedConfig(partial).features
               /\ router' = UpdatedConfig(partial).router
          ELSE UNCHANGED <<config, configFeatures, router>>
  /\ UNCHANGED <<aiVariant, provider, chatBuilt, lastInit, hook, sideVars,
                 messages, aiCalls, parseVars, pathname, planVars, navVars,
                 mergeVars, tourVars>>

\* The provider's children: the targets of one feature and its first step.
SyncFeatures == {feature \in FeatureInputs : feature.id \in StepFeatureIds}

ProviderNext ==
  \/ ProviderEffect
  \/ ProviderBoot("navigate")
  \/ \E feature \in SyncFeatures : Synced(RegisterFeatureCall(feature))
  \/ \E id \in StepFeatureIds : Synced(UnregisterFeatureCall(id))
  \/ \E id \in StepFeatureIds : Synced(RegisterStepCall(id, 0, NoParent))
  \/ \E id \in StepFeatureIds : Synced(UnregisterStepCall(id, 0, NoParent))
  \/ \E partial \in Partials : updateConfig(partial)

\* ================================================================ ai.js

\* callAI calls made in one behaviour.
MaxAICalls == 2

UserTexts == {"q1", "q2"}

\* The two callAI implementations of the repository: core/ai.js replaces
\* state.messages by a new array, the monolithic build pushes onto _messages.
AIVariants == {"modular", "monolithic"}

\* What the provider's promise can resolve with: whether the value is null or
\* undefined, whether it is an object, its message (NULL for undefined),
\* whether the message is a string and whether steps is an array.
AIResults ==
  { [nullish |-> FALSE, object |-> TRUE, message |-> "m1",
     messageIsString |-> TRUE, stepsIsArray |-> TRUE],
    [nullish |-> FALSE, object |-> TRUE, message |-> "m2",
     messageIsString |-> TRUE, stepsIsArray |-> FALSE],
    [nullish |-> FALSE, object |-> TRUE, message |-> "42",
     messageIsString |-> FALSE, stepsIsArray |-> TRUE],
    [nullish |-> FALSE, object |-> TRUE, message |-> NULL,
     messageIsString |-> FALSE, stepsIsArray |-> FALSE],
    [nullish |-> FALSE, object |-> FALSE, message |-> NULL,
     messageIsString |-> FALSE, stepsIsArray |-> FALSE],
    [nullish |-> TRUE, object |-> FALSE, message |-> NULL,
     messageIsString |-> FALSE, stepsIsArray |-> FALSE] }

NoResult ==
  [nullish |-> TRUE, object |-> FALSE, message |-> NULL,
   messageIsString |-> FALSE, stepsIsArray |-> FALSE]

\* A shape check that looks at the message only.
MessageOnly(result) == result.object /\ result.messageIsString

\* typeof p.message === 'string' && Array.isArray(p.steps)
ShapeOk(result) ==
  result.object /\ result.messageIsString /\ result.stepsIsArray

UserTurn(call) == [role |-> "user", content |-> call.text]

AssistantTurn(result) == [role |-> "assistant", content |-> result.message]

\* callAI after `await state.provider(...)` resolved with `result`: the user
\* turn and the assistant turn are appended to the history as it is now.
AppendTurn(current, call, result) ==
  current \o <<UserTurn(call), AssistantTurn(result)>>

\* callAI after the await when `result` is null or undefined: reading
\* result.message throws. core/ai.js throws while building the new array; the
\* monolithic build has already pushed the user turn.
AppendThrows(current, call) ==
  IF aiVariant = "monolithic" THEN Append(current, UserTurn(call))
  ELSE current

\* ------------------------------------------------------- parseAIResponse

\* Longest raw text, in tokens.
MaxRawLen == 4

\* The text of an AI response is a sequence of tokens: an opening fence with
\* the json tag, a bare fence, a run of whitespace, a JSON document, or text
\* that is not JSON.
FenceJson == [t |-> "fence-json", v |-> NoResult]

Fence == [t |-> "fence", v |-> NoResult]

Ws == [t |-> "ws", v |-> NoResult]

Text == [t |-> "text", v |-> NoResult]

\* JSON documents: the values JSON.parse can return for them.
Docs == {[t |-> "doc", v |-> r] : r \in AIResults}

Tokens == {FenceJson, Fence, Ws, Text} \cup Docs

RECURSIVE DropLeadingWs(_)
\* The \s* at the end of the two opening-fence patterns, and trim()'s left half.
DropLeadingWs(toks) ==
  IF toks # <<>> /\ Head(toks) = Ws THEN DropLeadingWs(Tail(toks)) ELSE toks

RECURSIVE DropTrailingWs(_)
\* The \s* before $ of the closing-fence pattern, and trim()'s right half.
DropTrailingWs(toks) ==
  IF toks # <<>> /\ toks[Len(toks)] = Ws
    THEN DropTrailingWs(SubSeq(toks, 1, Len(toks) - 1))
    ELSE toks

\* .replace(/^```json\s*/i, '')
StripFenceJson(toks) ==
  IF toks # <<>> /\ Head(toks) = FenceJson THEN DropLeadingWs(Tail(toks))
  ELSE toks

\* .replace(/^```\s*/i, '')
\* A second json-tagged fence loses its backticks and leaves the tag.
StripFenceOpen(toks) ==
  IF toks # <<>> /\ Head(toks) = Fence THEN DropLeadingWs(Tail(toks))
  ELSE IF toks # <<>> /\ Head(toks) = FenceJson THEN <<Text>> \o Tail(toks)
  ELSE toks

\* .replace(/```\s*$/i, '')
StripFenceClose(toks) ==
  LET body == DropTrailingWs(toks)
  IN  IF body # <<>> /\ body[Len(body)] = Fence
        THEN SubSeq(body, 1, Len(body) - 1)
        ELSE toks

\* .trim()
Trim(toks) == DropTrailingWs(DropLeadingWs(toks))

Clean(toks) == Trim(StripFenceClose(StripFenceOpen(StripFenceJson(toks))))

Unreadable == "AI returned an unreadable response. Please try again."

Thrown(msg) == [ok |-> FALSE, value |-> NoResult, error |-> msg]

\* JSON.parse(clean): one document and nothing else, or a SyntaxError.
JsonParse(clean) ==
  IF Len(clean) = 1 /\ clean[1] \in Docs
    THEN [ok |-> TRUE, value |-> clean[1].v, error |-> NULL]
    ELSE Thrown("SyntaxError")

\* The body of the try block: parse, read p.message (a TypeError on null),
\* check the shape.
TryParse(clean) ==
  LET p == JsonParse(clean)
  IN  IF ~p.ok THEN p
      ELSE IF p.value.nullish THEN Thrown("TypeError")
      ELSE IF ~ShapeOk(p.value) THEN Thrown("Bad shape")
      ELSE p

\* parseAIResponse(raw): whatever the try block throws is replaced by the
\* fixed message.
parseAIResponse(toks) ==
  LET r == TryParse(Clean(toks))
  IN  IF r.ok THEN r ELSE Thrown(Unreadable)

NotParsed == Thrown(NULL)

RECURSIVE SeqsUpTo(_, _)
SeqsUpTo(set, n) ==
  IF n = 0 THEN {<<>>}
  ELSE LET shorter == SeqsUpTo(set, n - 1)
       IN  shorter \cup {Append(q, x) : q \in shorter, x \in set}

RawInputs == SeqsUpTo(Tokens, MaxRawLen)

ParseIdle ==
  /\ raw = <<>>
  /\ parsed = NotParsed

\* A call parseAIResponse(raw) on a text chosen at the start.
ParseAIResponse ==
  /\ parsed = NotParsed
  /\ parsed' = parseAIResponse(raw)
  /\ UNCHANGED <<raw, hostVars, messages, aiCalls, pathname, planVars,
                 navVars, regVars, configFeatures, mergeVars, tourVars>>

ParseNext == ParseAIResponse

\* --------------------------------------------------- previewRoutesNeeded

\* Longest step list handed to previewRoutesNeeded.
MaxPlanLen == 3

\* state.config.features of the route-plan harness: two features on /a, one
\* on /b, one without a route, and a second entry with the id of the /b one.
RouteConfig ==
  << [id |-> <<"a">>, name |-> "A", route |-> "/a"],
     [id |-> <<"b">>, name |-> "B", route |-> "/b"],
     [id |-> <<"a2">>, name |-> "A2", route |-> "/a"],
     [id |-> <<"n">>, name |-> "N"],
     [id |-> <<"b">>, name |-> "B2", route |-> "/z"] >>

\* The steps of the AI: ids of features, and one id of no feature.
PlanStepIds == {<<"a">>, <<"b">>, <<"a2">>, <<"n">>, <<"u">>}

PlanInputs == SeqsUpTo({[id |-> i] : i \in PlanStepIds}, MaxPlanLen)

Pathnames == {"/a", "/b", "/x"}

\* getCurrentRoute()
getCurrentRoute == pathname

\* A seen set that does not start with the current route.
SeenNothing(currentRoute) == {}

\* const seen = new Set([currentRoute])
SeenInit(currentRoute) == {currentRoute}

\* feature?.route of state.config.features.find(f => f.id === step.id)
RouteOfStep(step) ==
  LET i == FeatureIndex(step.id)
  IN  IF i = 0 THEN NULL ELSE GetS(configFeatures[i], "route")

\* feature.name of the same feature
NameOfStep(step) ==
  LET i == FeatureIndex(step.id)
  IN  IF i = 0 THEN NULL ELSE GetS(configFeatures[i], "name")

RECURSIVE PlanFrom(_, _, _)
\* aiSteps.forEach(step => ...), from the steps that remain
PlanFrom(steps, seen, ordered) ==
  IF steps = <<>> THEN ordered
  ELSE LET route == RouteOfStep(Head(steps))
       IN  IF route # NULL /\ route \notin seen
             THEN PlanFrom(Tail(steps), seen \cup {route},
                           Append(ordered,
                                  [route |-> route,
                                   featureName |-> NameOfStep(Head(steps))]))
             ELSE PlanFrom(Tail(steps), seen, ordered)

previewRoutesNeeded(aiSteps) ==
  PlanFrom(aiSteps, SeenInit(getCurrentRoute), <<>>)

NoPlan == <<[route |-> NULL, featureName |-> NULL]>>

PlanIdle ==
  /\ planSteps = <<>>
  /\ plan = NoPlan

\* A call previewRoutesNeeded(planSteps) on the steps chosen at the start.
PreviewRoutesNeeded ==
  /\ plan = NoPlan
  /\ plan' = previewRoutesNeeded(planSteps)
  /\ UNCHANGED <<planSteps, pathname, hostVars, messages, aiCalls, parseVars,
                 navVars, regVars, configFeatures, mergeVars, tourVars>>

PlanNext == PreviewRoutesNeeded

\* ------------------------------------- waitForElement, waitForRouteChange

\* Waits started in one behaviour.
MaxWaits == 2

\* A wait the executor resolved at once: no timer, no watcher, no cleanup.
ResolvedAtOnce(kind, target) ==
  [kind |-> kind, target |-> target, pc |-> "resolved", by |-> "executor",
   timer |-> FALSE, watcher |-> FALSE, cleanup |-> FALSE]

\* A wait left pending by the executor: the timeout is armed, the watcher
\* (the MutationObserver, the 50 ms interval) is armed, and the callback that
\* clears both has been pushed onto state.cleanups.
Armed(kind, target) ==
  [kind |-> kind, target |-> target, pc |-> "pending", by |-> "none",
   timer |-> TRUE, watcher |-> TRUE, cleanup |-> TRUE]

\* waitForRouteChange(targetRoute, timeout), the executor, run while
\* window.location.pathname is path
RouteWaitAt(path, targetRoute) ==
  IF path = targetRoute THEN ResolvedAtOnce("route", targetRoute)
  ELSE Armed("route", targetRoute)

RouteWait(targetRoute) == RouteWaitAt(pathname, targetRoute)

\* waitForElement(selector, timeout), the executor; present is the outcome of
\* document.querySelector(selector)
ElementWait(selector, present) ==
  IF present THEN ResolvedAtOnce("element", selector)
  ELSE Armed("element", selector)

\* The watcher's callback found its condition true, or the timeout elapsed:
\* both disarm the timer and the watcher and resolve the promise.
Settle(w, by) ==
  [w EXCEPT !.pc = "resolved", !.by = by, !.timer = FALSE, !.watcher = FALSE]

\* The callback pushed onto state.cleanups: clearTimeout and clearInterval /
\* disconnect, nothing else.
RunCleanup(w) ==
  IF w.cleanup THEN [w EXCEPT !.timer = FALSE, !.watcher = FALSE,
                              !.cleanup = FALSE]
  ELSE w

WaitSelectors == {"#w"}

NavIdle ==
  [pc |-> "idle", route |-> NULL, from |-> NULL, hasRouter |-> FALSE,
   outcome |-> "none", msgs |-> 0, routerCalls |-> 0, routerArg |-> NULL,
   pushes |-> 0, wait |-> 0]

WaitsIdle ==
  /\ waits = <<>>
  /\ nav = NavIdle

\* waitForElement(selector, timeout) is called.
WaitForElement(selector, present) ==
  /\ Len(waits) < MaxWaits
  /\ waits' = Append(waits, ElementWait(selector, present))
  /\ UNCHANGED <<nav, pathname, hostVars, messages, aiCalls, parseVars,
                 planVars, regVars, configFeatures, mergeVars, tourVars>>

\* waitForRouteChange(targetRoute, timeout) is called.
WaitForRouteChange(targetRoute) ==
  /\ Len(waits) < MaxWaits
  /\ waits' = Append(waits, RouteWait(targetRoute))
  /\ UNCHANGED <<nav, pathname, hostVars, messages, aiCalls, parseVars,
                 planVars, regVars, configFeatures, mergeVars, tourVars>>

\* The MutationObserver of wait w is called back and finds the selector.
ObserverFinds(w) ==
  /\ w \in 1..Len(waits)
  /\ waits[w].kind = "element"
  /\ waits[w].watcher
  /\ waits' = [waits EXCEPT ![w] = Settle(@, "watcher")]
  /\ UNCHANGED <<nav, pathname, hostVars, messages, aiCalls, parseVars,
                 planVars, regVars, configFeatures, mergeVars, tourVars>>

\* The 50 ms interval of wait w ticks and finds the pathname equal to its
\* target.
IntervalFinds(w) ==
  /\ w \in 1..Len(waits)
  /\ waits[w].kind = "route"
  /\ waits[w].watcher
  /\ pathname = waits[w].target
  /\ waits' = [waits EXCEPT ![w] = Settle(@, "watcher")]
  /\ UNCHANGED <<nav, pathname, hostVars, messages, aiCalls, parseVars,
                 planVars, regVars, configFeatures, mergeVars, tourVars>>

\* The timeout of wait w elapses.
TimerFires(w) ==
  /\ w \in 1..Len(waits)
  /\ waits[w].timer
  /\ waits' = [waits EXCEPT ![w] = Settle(@, "timer")]
  /\ UNCHANGED <<nav, pathname, hostVars, messages, aiCalls, parseVars,
                 planVars, regVars, configFeatures, mergeVars, tourVars>>

\* runAndClearCleanups(), as the tour's cancel and complete handlers and the
\* start of runTour call it: every pushed callback runs, the list is emptied.
RunWaitCleanups ==
  /\ \E w \in 1..Len(waits) : waits[w].cleanup
  /\ waits' = [w \in 1..Len(waits) |-> RunCleanup(waits[w])]
  /\ UNCHANGED <<nav, pathname, hostVars, messages, aiCalls, parseVars,
                 planVars, regVars, configFeatures, mergeVars, tourVars>>

\* The application's router (or the user) moves the page to another route.
PathChange(route) ==
  /\ pathname # route
  /\ pathname' = route
  /\ UNCHANGED <<waits, nav, hostVars, messages, aiCalls, parseVars,
                 planVars, regVars, configFeatures, mergeVars, tourVars>>

\* ---------------------------------------------------------- navigateToRoute

NavRoutes == {NULL} \cup Pathnames

\* How the call of state.router(route), or of pushState and dispatchEvent,
\* ends in the turn that makes it.
CallOutcomes == {"throws", "returns"}

\* How the value the router returned settles.
RouterOutcomes == {"resolves", "rejects"}

\* A navigateToRoute without the try / catch around the navigation.
Uncaught(outcome) ==
  IF outcome \in {"throws", "rejects"} THEN "rejected" ELSE "wait"

\* try { ... } catch (err) { console.warn(...) }: whatever the navigation
\* does, the function goes on to waitForRouteChange.
AfterNavigation(outcome) == "wait"

\* `await waitForRouteChange(route, 8000)` reached while the pathname is
\* path: the wait is made; resolved at once, the function goes on to its
\* 80 ms delay, otherwise it is suspended on the wait.
StartRouteWait(call, path) ==
  LET wait == RouteWaitAt(path, call.route)
  IN  /\ Len(waits) < MaxWaits
      /\ waits' = Append(waits, wait)
      /\ nav' = [call EXCEPT
                   !.wait = Len(waits) + 1,
                   !.pc = IF wait.pc = "resolved" THEN "delay" ELSE "waiting"]

\* The navigation ended with `outcome` while the pathname is path.
Navigated(call, outcome, path) ==
  IF AfterNavigation(outcome) = "rejected"
    THEN nav' = [call EXCEPT !.pc = "rejected"] /\ waits' = waits
    ELSE StartRouteWait(call, path)

\* navigateToRoute(route, featureName) up to its first suspension.
NavigateToRoute(route, hasRouter, outcome) ==
  /\ nav.pc = "idle"
  /\ LET call == [nav EXCEPT !.route = route, !.from = getCurrentRoute,
                              !.hasRouter = hasRouter]
     IN  IF route = NULL \/ getCurrentRoute = route
           THEN /\ nav' = [call EXCEPT !.pc = "resolved"]
                /\ UNCHANGED <<waits, pathname>>
         ELSE IF hasRouter
           THEN LET called == [call EXCEPT !.msgs = @ + 1,
                                           !.routerCalls = @ + 1,
                                           !.routerArg = route,
                                           !.outcome = outcome]
                IN  /\ IF outcome = "throws"
                         THEN Navigated(called, outcome, pathname)
                         ELSE /\ nav' = [called EXCEPT !.pc = "router"]
                              /\ waits' = waits
                    /\ pathname' = pathname
         ELSE LET pushed == [call EXCEPT !.msgs = @ + 1, !.pushes = @ + 1,
                                         !.outcome = outcome]
                  path == IF outcome = "throws" THEN pathname ELSE route
              IN  /\ Navigated(pushed, outcome, path)
                  /\ pathname' = path
  /\ UNCHANGED <<hostVars, messages, aiCalls, parseVars, planVars, regVars,
                 configFeatures, mergeVars, tourVars>>

\* The value state.router(route) returned settles and navigateToRoute goes
\* on.
RouterSettles(outcome) ==
  /\ nav.pc = "router"
  /\ Navigated([nav EXCEPT !.outcome = outcome], outcome, pathname)
  /\ UNCHANGED <<pathname, hostVars, messages, aiCalls, parseVars, planVars,
                 regVars, configFeatures, mergeVars, tourVars>>

\* The route wait of navigateToRoute has resolved; the function goes on to
\* its 80 ms delay.
NavWaitResolved ==
  /\ nav.pc = "waiting"
  /\ waits[nav.wait].pc = "resolved"
  /\ nav' = [nav EXCEPT !.pc = "delay"]
  /\ UNCHANGED <<waits, pathname, hostVars, messages, aiCalls, parseVars,
                 planVars, regVars, configFeatures, mergeVars, tourVars>>

\* The 80 ms delay has passed: the promise of navigateToRoute resolves.
NavDelayDone ==
  /\ nav.pc = "delay"
  /\ nav' = [nav EXCEPT !.pc = "resolved"]
  /\ UNCHANGED <<waits, pathname, hostVars, messages, aiCalls, parseVars,
                 planVars, regVars, configFeatures, mergeVars, tourVars>>

NavNext ==
  \/ \E route \in NavRoutes, hasRouter \in BOOLEAN, outcome \in CallOutcomes :
       NavigateToRoute(route, hasRouter, outcome)
  \/ \E outcome \in RouterOutcomes : RouterSettles(outcome)
  \/ NavWaitResolved
  \/ NavDelayDone

WaitNext ==
  \/ \E selector \in WaitSelectors, present \in BOOLEAN :
       WaitForElement(selector, present)
  \/ \E targetRoute \in Pathnames : WaitForRouteChange(targetRoute)
  \/ \E w \in 1..MaxWaits : ObserverFinds(w)
  \/ \E w \in 1..MaxWaits : IntervalFinds(w)
  \/ \E w \in 1..MaxWaits : TimerFires(w)
  \/ RunWaitCleanups
  \/ \E route \in Pathnames : PathChange(route)

AIIdle ==
  /\ aiVariant = "modular"
  /\ CoreIdle
  /\ messages = <<>>
  /\ aiCalls = <<>>
  /\ ParseIdle
  /\ pathname = "/a"
  /\ PlanIdle
  /\ WaitsIdle

\* callAI(userMessage) up to `await state.provider(...)`.
CallAIBegin(text) ==
  /\ Len(aiCalls) < MaxAICalls
  /\ aiCalls' = Append(aiCalls, [text |-> text, seen |-> messages,
                                 pc |-> "await", result |-> NoResult])
  /\ UNCHANGED <<hostVars, messages, parseVars, pathname, planVars, navVars,
                 regVars, configFeatures, mergeVars, tourVars>>

\* The provider's promise resolves and callAI runs to its end.
ProviderResolve(c, result) ==
  /\ c \in 1..Len(aiCalls)
  /\ aiCalls[c].pc = "await"
  /\ IF ~result.nullish
       THEN /\ messages' = AppendTurn(messages, aiCalls[c], result)
            /\ aiCalls' = [aiCalls EXCEPT ![c].pc = "returned",
                                          ![c].result = result]
       ELSE /\ messages' = AppendThrows(messages, aiCalls[c])
            /\ aiCalls' = [aiCalls EXCEPT ![c].pc = "threw"]
  /\ UNCHANGED <<hostVars, parseVars, pathname, planVars, navVars, regVars,
                 configFeatures, mergeVars, tourVars>>

\* The provider's promise rejects: callAI rejects at the await.
ProviderReject(c) ==
  /\ c \in 1..Len(aiCalls)
  /\ aiCalls[c].pc = "await"
  /\ aiCalls' = [aiCalls EXCEPT ![c].pc = "threw"]
  /\ UNCHANGED <<hostVars, messages, parseVars, pathname, planVars, navVars,
                 regVars, configFeatures, mergeVars, tourVars>>

AINext ==
  \/ \E text \in UserTexts : CallAIBegin(text)
  \/ \E c \in 1..MaxAICalls, result \in AIResults : ProviderResolve(c, result)
  \/ \E c \in 1..MaxAICalls : ProviderReject(c)

\* ------------------------------------------------- chat.js: handleSend

\* What the provider's promise can reject with: an Error with a message, a
\* value whose .message is empty or undefined (an Error without text, a
\* string), and null or undefined.
RejectReasons == {"error", "blank", "nullish"}

\* `err.message || '...'` of the catch block throws for null and undefined.
CatchThrows(reason) == reason = "nullish"

\* handleSend(text) up to `await callAI(text)`, with callAI up to its
\* `await state.provider(...)`: the pause state is cleared, the user's
\* message is shown, the controls are disabled and the provider is invoked.
handleSend(text) ==
  /\ Len(aiCalls) < MaxAICalls
  /\ Commit([S EXCEPT !.pausedSteps = NoSteps, !.pausedIndex = 0,
                      !.resumePrompt = FALSE])
  /\ aiCalls' = Append(aiCalls, [text |-> text, seen |-> messages,
                                 pc |-> "await", result |-> NoResult])
  /\ send' = [send EXCEPT
       !.calls = Append(@, [call |-> Len(aiCalls) + 1, pc |-> "await",
                            invoked |-> 1, outcome |-> NULL,
                            errorShown |-> FALSE, scheduled |-> FALSE,
                            historyKept |-> TRUE, enabled |-> FALSE]),
       !.disabled = TRUE]
  /\ UNCHANGED <<aiVariant, provider, config, router, chatBuilt, lastInit,
                 hook, adv, messages, parseVars, pathname, planVars, navVars,
                 regVars, configFeatures, mergeVars>>

\* The provider's promise resolves: callAI runs to its end and handleSend
\* continues after its await. `hasSteps` is result.steps?.length.
SendResolves(h, result, hasSteps) ==
  /\ h \in 1..Len(send.calls)
  /\ send.calls[h].pc = "await"
  /\ hasSteps => result.stepsIsArray
  /\ LET c == send.calls[h].call
         ok == ~result.nullish
     IN /\ messages' = IF ok THEN AppendTurn(messages, aiCalls[c], result)
                        ELSE AppendThrows(messages, aiCalls[c])
        /\ aiCalls' = IF ok
                        THEN [aiCalls EXCEPT ![c].pc = "returned",
                                             ![c].result = result]
                        ELSE [aiCalls EXCEPT ![c].pc = "threw"]
        /\ send' = [send EXCEPT
             !.calls[h] = [@ EXCEPT !.pc = "done",
                                    !.outcome = IF ok THEN "resolved"
                                                ELSE "threw",
                                    !.errorShown = ~ok,
                                    !.scheduled = ok /\ hasSteps,
                                    !.historyKept = (messages' = messages),
                                    !.enabled = TRUE],
             !.timers = IF ok /\ hasSteps THEN Append(@, [void |-> FALSE])
                        ELSE @,
             !.disabled = FALSE]
  /\ UNCHANGED <<aiVariant, provider, config, router, chatBuilt, lastInit,
                 hook, adv, parseVars, pathname, planVars, navVars, regVars,
                 configFeatures, mergeVars, tourVars>>

\* The provider's promise rejects: callAI rejects at its await and
\* handleSend runs its catch and finally blocks.
SendRejects(h, reason) ==
  /\ h \in 1..Len(send.calls)
  /\ send.calls[h].pc = "await"
  /\ aiCalls' = [aiCalls EXCEPT ![send.calls[h].call].pc = "threw"]
  /\ messages' = messages
  /\ send' = [send EXCEPT
       !.calls[h] = [@ EXCEPT !.pc = "done",
                              !.outcome = "rejected",
                              !.errorShown = ~CatchThrows(reason),
                              !.historyKept = (messages' = messages),
                              !.enabled = TRUE],
       !.disabled = FALSE]
  /\ UNCHANGED <<aiVariant, provider, config, router, chatBuilt, lastInit,
                 hook, adv, parseVars, pathname, planVars, navVars, regVars,
                 configFeatures, mergeVars, tourVars>>

\* The steps of the tours the provider returns.
ChatSteps == <<StepP>>

\* The timer of a delayed start fires: togglePanel(); _runTour(result.steps)
SendTimerFires(k) ==
  /\ k \in 1..Len(send.timers)
  /\ Len(calls) < MaxCalls
  /\ Commit(InvokeRunTour(togglePanel(S), ChatSteps, "chat"))
  /\ send' = [send EXCEPT
       !.timers = [j \in 1..(Len(@) - 1) |->
                     IF j < k THEN @[j] ELSE @[j + 1]],
       !.voided = IF send.timers[k].void THEN @ \cup {Len(calls) + 1}
                  ELSE @]
  /\ UNCHANGED <<aiVariant, provider, config, router, chatBuilt, lastInit,
                 hook, adv, messages, aiCalls, parseVars, pathname, planVars,
                 navVars, regVars, configFeatures, mergeVars>>

\* cancelTour() while starts are pending: runTour calls suspended before
\* their tour exists, and delayed starts whose timer has not fired.
CancelPending ==
  /\ \/ \E i \in CallIds(S) : InProgress(calls[i])
     \/ send.timers # <<>>
  /\ Commit(AfterCancelTour(S))
  /\ send' = [send EXCEPT
       !.timers = [j \in 1..Len(@) |-> [void |-> TRUE]],
       !.voided = @ \cup {i \in CallIds(S) : InProgress(calls[i])}]
  /\ UNCHANGED <<aiVariant, provider, config, router, chatBuilt, lastInit,
                 hook, adv, messages, aiCalls, parseVars, pathname, planVars,
                 navVars, regVars, configFeatures, mergeVars>>

SendNext ==
  \/ \E text \in UserTexts : handleSend(text)
  \/ \E h \in 1..MaxAICalls, result \in AIResults, hasSteps \in BOOLEAN :
       SendResolves(h, result, hasSteps)
  \/ \E h \in 1..MaxAICalls, reason \in RejectReasons : SendRejects(h, reason)
  \/ \E k \in 1..MaxAICalls : SendTimerFires(k)

\* Starts from the chat and from the API, and cancelTour() between a start's
\* request and its tour.
CancelNext ==
  \/ \E text \in UserTexts : handleSend(text)
  \/ \E h \in 1..MaxAICalls, result \in AIResults :
       SendResolves(h, result, TRUE)
  \/ \E k \in 1..MaxAICalls : SendTimerFires(k)
  \/ RunTour(ChatSteps)
  \/ \E i \in 1..MaxCalls : RunTourLoaded(i)
  \/ CancelPending

\* ------------------------------------- tour.js: one step, built and shown

\* The feature of the step harness lives on the page /b.  Off that page (or
\* before its component has mounted) the registry renders it as a ghost:
\* no selector, screen.check() false.  "away" stands for a screen whose
\* check() is false and whose navigate is a function.
HGhost ==
  [id |-> <<"h">>, name |-> "H", description |-> "does h", selector |-> NULL,
   route |-> "/b", advanceOn |-> NULL, waitFor |-> NULL, _ghost |-> TRUE,
   flow |-> <<>>, screen |-> "away", screenWaitFor |-> NULL]

HLive ==
  [id |-> <<"h">>, name |-> "H", description |-> "does h", selector |-> "#h",
   route |-> "/b", advanceOn |-> "click@#h", waitFor |-> "#hw",
   _ghost |-> FALSE,
   flow |-> <<>>, screen |-> "here", screenWaitFor |-> "#h"]

\* The steps the AI may return for the feature, without and with a selector.
HookSteps ==
  { [id |-> <<"h">>, title |-> <<"th">>, text |-> <<"xh">>],
    [id |-> <<"h">>, title |-> <<"th">>, text |-> <<"xh">>,
     selector |-> "#ai"] }

\* screen.check() of the harness feature: the closure reads the registry at
\* the time of the call, whichever snapshot the screen object came from.
HookScreenCheck == ~configFeatures[1]._ghost

\* ensureOnCorrectScreen(feature): the events it adds to the log.
ScreenEvents(feature) ==
  IF GetS(feature, "screen") = NULL \/ HookScreenCheck
    THEN <<>>
    ELSE <<"screen.navigate">>

\* runTour for a tour whose step at hand is `step`: merge, the legacy screen
\* navigation when the step is the tour's first, and addStep with the
\* attachTo of the merged step; wireAdvanceOn installs the listener of the
\* merged step's advanceOn (auto).  offRoute notes that the step's route was
\* not the current one when runTour ran (first step) or when it was shown.
HookBuild(step, first) ==
  /\ hook.pc = "idle"
  /\ LET merged == mergeWithFeature(step)
         i == FeatureIndex(GetT(merged, "id"))
         events == IF first /\ i # 0 THEN ScreenEvents(configFeatures[i])
                   ELSE <<>>
     IN hook' = [pc |-> "built", first |-> first, step |-> merged,
                 fresh |-> [id |-> <<>>],
                 attachTo |-> GetS(merged, "selector"), log |-> events,
                 offRoute |-> /\ first
                              /\ GetS(merged, "route") # NULL
                              /\ getCurrentRoute # GetS(merged, "route"),
                 builtGhost |-> i # 0 /\ configFeatures[i]._ghost,
                 auto |-> IF HasAuto(merged) THEN GetS(merged, "advanceOn")
                          ELSE NULL,
                 waited |-> NULL]
  /\ UNCHANGED <<aiVariant, provider, config, router, chatBuilt, lastInit,
                 sideVars,
                 messages, aiCalls, parseVars, pathname, planVars, navVars,
                 regVars, configFeatures, mergeVars, tourVars>>

\* The step is shown: its beforeShow hook merges again and, when the merged
\* route is not the current one, calls navigateToRoute (the router call).
HookShow ==
  /\ hook.pc = "built"
  /\ LET fresh == mergeWithFeature(hook.step)
         targetRoute == GetS(fresh, "route")
     IN hook' =
          IF targetRoute # NULL /\ getCurrentRoute # targetRoute
            THEN [hook EXCEPT !.pc = "navigating", !.fresh = fresh,
                              !.log = Append(@, "router"),
                              !.offRoute = TRUE]
            ELSE [hook EXCEPT !.pc = "afterRoute", !.fresh = fresh]
  /\ UNCHANGED <<aiVariant, provider, config, router, chatBuilt, lastInit,
                 sideVars,
                 messages, aiCalls, parseVars, pathname, planVars, navVars,
                 regVars, configFeatures, mergeVars, tourVars>>

\* navigateToRoute has returned (the route was reached or its wait timed
\* out): the hook merges once more and, with a selector, retargets the step
\* and is done after waiting for the element.
HookNavigated ==
  /\ hook.pc = "navigating"
  /\ LET postNavMerge == mergeWithFeature(hook.step)
     IN hook' =
          IF GetS(postNavMerge, "selector") # NULL
            THEN [hook EXCEPT !.pc = "done",
                              !.attachTo = GetS(postNavMerge, "selector")]
            ELSE [hook EXCEPT !.pc = "afterRoute"]
  /\ UNCHANGED <<aiVariant, provider, config, router, chatBuilt, lastInit,
                 sideVars,
                 messages, aiCalls, parseVars, pathname, planVars, navVars,
                 regVars, configFeatures, mergeVars, tourVars>>

\* The rest of the hook: ensureOnCorrectScreen(freshMerged) when the merged
\* step has a screen, then the wait for freshMerged.waitFor.
HookScreen ==
  /\ hook.pc = "afterRoute"
  /\ hook' = [hook EXCEPT !.pc = "done",
                          !.log = @ \o ScreenEvents(hook.fresh),
                          !.waited = GetS(hook.fresh, "waitFor")]
  /\ UNCHANGED <<aiVariant, provider, config, router, chatBuilt, lastInit,
                 sideVars,
                 messages, aiCalls, parseVars, pathname, planVars, navVars,
                 regVars, configFeatures, mergeVars, tourVars>>

\* The tour goes on to another step, or a new tour is asked for.
HookReset ==
  /\ hook.pc = "done"
  /\ hook' = NoHook
  /\ UNCHANGED <<aiVariant, provider, config, router, chatBuilt, lastInit,
                 sideVars,
                 messages, aiCalls, parseVars, pathname, planVars, navVars,
                 regVars, configFeatures, mergeVars, tourVars>>

\* The page /b renders and the feature's component registers, or the page
\* is left and the component unregisters; config.features follows through
\* _updateConfig({ features: registry.snapshot() }).
HookMount ==
  /\ configFeatures' =
       IF configFeatures = <<HGhost>> /\ pathname = "/b" THEN <<HLive>>
       ELSE IF configFeatures = <<HLive>> /\ pathname # "/b" THEN <<HGhost>>
       ELSE configFeatures
  /\ configFeatures' # configFeatures
  /\ UNCHANGED <<hostVars, messages, aiCalls, parseVars, pathname, planVars,
                 navVars, regVars, mergeVars, tourVars>>

HookNext ==
  \/ \E step \in HookSteps, first \in BOOLEAN : HookBuild(step, first)
  \/ HookShow
  \/ HookNavigated
  \/ HookScreen
  \/ HookReset
  \/ HookMount
  \/ \E route \in Pathnames : PathChange(route)

\* ---------------------------------------------------------- specifications

RegIdle ==
  /\ variant = "ghost"
  /\ features = <<>>
  /\ flowSteps = [id \in FeatureIds |-> <<>>]
  /\ lastReg = NoCall
  /\ listeners = {}
  /\ notes = Silent
  /\ snappedLive = {}

MergeIdle ==
  /\ mStep = NoStep
  /\ mMerged = NoStep
  /\ mExpanded = <<>>
  /\ mPc = "idle"

\* The tour runner over a fixed config.
Init ==
  RegIdle /\ MergeIdle /\ configFeatures = TourConfig /\ TourInit /\ AIIdle

Next == TourNext

Spec == Init /\ [][Next]_vars

\* Auto-advance: DOM events and their delayed advances against tours that
\* are started, paused and replaced.
NextAdvance == AdvanceNext

SpecAdvance == Init /\ [][NextAdvance]_vars

\* The host's step reports (stepComplete, stepFail) against tours that are
\* started, advanced, paused and cancelled.
NextStep ==
  \/ \E steps \in TourStepLists : RunTour(steps)
  \/ \E i \in 1..MaxCalls : RunTourLoaded(i)
  \/ \E i \in 1..MaxCalls : RunTourScreened(i)
  \/ \E t \in 1..MaxCalls : PauseClick(t)
  \/ \E t \in 1..MaxCalls : HookWait(t)
  \/ StepComplete
  \/ \E message \in FailMessages, rendered \in BOOLEAN :
       StepFail(message, rendered)
  \/ CancelTour

SpecStep == Init /\ [][NextStep]_vars

\* init called any number of times on a page that has not set the SDK up.
InitCore ==
  RegIdle /\ MergeIdle /\ configFeatures = <<>> /\ TourInit /\ AIIdle

NextCore == CoreNext

SpecCore == InitCore /\ [][NextCore]_vars

\* The provider keeping config.features in step with its registry.
InitSync ==
  RegInit /\ MergeIdle /\ configFeatures = <<>> /\ TourInit /\ AIIdle

NextSync == ProviderNext

SpecSync == InitSync /\ [][NextSync]_vars

\* One step of a tour against a page that changes under it.
InitHook ==
  RegIdle /\ MergeIdle /\ configFeatures = <<HGhost>> /\ TourInit /\ AIIdle

NextHook == HookNext

SpecHook == InitHook /\ [][NextHook]_vars

\* The registry on its own.
InitRegistry ==
  RegInit /\ MergeIdle /\ configFeatures = <<>> /\ TourInit /\ AIIdle

NextRegistry == RegNext

SpecRegistry == InitRegistry /\ [][NextRegistry]_vars

\* The registry with callers that keep the entries of earlier snapshots.
NextShim ==
  \/ \E feature \in FeatureInputs : registerFeature(feature)
  \/ \E id \in FeatureIds : unregisterFeature(id)
  \/ \E id \in StepFeatureIds, index \in StepIndexes :
       registerStep(id, index, NoParent)
  \/ TakeSnapshot

SpecShim == InitRegistry /\ [][NextShim]_vars

\* mergeWithFeature and the expansion applied to every input of the harness.
InitMerge == RegIdle /\ MergeInit /\ TourInit /\ AIIdle

NextMerge == MergeNext

SpecMerge == InitMerge /\ [][NextMerge]_vars

\* The AI round-trip on its own, with overlapping callAI calls.
InitAI ==
  /\ RegIdle /\ MergeIdle /\ configFeatures = TourConfig /\ TourInit
  /\ aiVariant \in AIVariants
  /\ CoreIdle
  /\ messages = <<>>
  /\ aiCalls = <<>>
  /\ ParseIdle
  /\ pathname = "/a"
  /\ PlanIdle
  /\ WaitsIdle

NextAI == AINext

SpecAI == InitAI /\ [][NextAI]_vars

\* The chat's round-trip: messages sent while earlier ones are pending.
InitSend == InitAI

NextSend == SendNext

SpecSend == InitSend /\ [][NextSend]_vars

\* cancelTour() against starts that are still pending.
NextCancel == CancelNext

SpecCancel == Init /\ [][NextCancel]_vars

\* parseAIResponse alone, on every text of the bound, with a history in place.
InitParse ==
  /\ RegIdle /\ MergeIdle /\ configFeatures = TourConfig /\ TourInit
  /\ aiVariant = "modular"
  /\ CoreIdle
  /\ messages \in {<<>>, <<[role |-> "user", content |-> "q1"],
                           [role |-> "assistant", content |-> "m1"]>>}
  /\ aiCalls = <<>>
  /\ raw \in RawInputs
  /\ parsed = NotParsed
  /\ pathname = "/a"
  /\ PlanIdle
  /\ WaitsIdle

NextParse == ParseNext

SpecParse == InitParse /\ [][NextParse]_vars

\* previewRoutesNeeded alone, on every step list of the bound and every
\* current route.
InitPlan ==
  /\ RegIdle /\ MergeIdle /\ TourInit
  /\ configFeatures = RouteConfig
  /\ aiVariant = "modular"
  /\ CoreIdle
  /\ messages = <<>>
  /\ aiCalls = <<>>
  /\ ParseIdle
  /\ pathname \in Pathnames
  /\ planSteps \in PlanInputs
  /\ plan = NoPlan
  /\ WaitsIdle

NextPlan == PlanNext

SpecPlan == InitPlan /\ [][NextPlan]_vars

\* The waits alone, with the cleanups running at any moment. An armed
\* setTimeout fires once its delay has passed unless it is cleared first.
InitWait ==
  /\ RegIdle /\ MergeIdle /\ configFeatures = TourConfig /\ TourInit
  /\ aiVariant = "modular"
  /\ CoreIdle
  /\ messages = <<>>
  /\ aiCalls = <<>>
  /\ ParseIdle
  /\ PlanIdle
  /\ pathname \in Pathnames
  /\ WaitsIdle

NextWait == WaitNext

SpecWait ==
  /\ InitWait
  /\ [][NextWait]_vars
  /\ \A w \in 1..MaxWaits : WF_vars(TimerFires(w))

\* navigateToRoute, with the events of its route wait, the cleanups and the
\* route changes happening beside it.
InitNav == InitWait

NextNav ==
  \/ NavNext
  \/ \E w \in 1..MaxWaits : IntervalFinds(w)
  \/ \E w \in 1..MaxWaits : TimerFires(w)
  \/ RunWaitCleanups
  \/ \E route \in Pathnames : PathChange(route)

SpecNav == InitNav /\ [][NextNav]_vars

\* ================================================================= claims

\* The runTour calls that have created and started their tour in this step.
StartsNow(i) ==
  /\ i \in CallIds(S)
  /\ InProgress(calls[i])
  /\ calls'[i].pc = "started"

\* C1: sequential replacement.  When runTour(B) was called while tour A was
\* the one tour on screen and the one in state.tour, and no other runTour call
\* was in progress from B's call to B's start, then at the step in which B
\* starts B is the only live tour, state.tour holds B, A is no longer live,
\* and every cleanup callback registered while A was live has been invoked
\* exactly once.
C1_SequentialReplacement ==
  [][\A i \in 1..MaxCalls :
       (StartsNow(i) /\ calls[i].prev # 0)
         => /\ tour' = i
            /\ activeTour' = i
            /\ LiveSet(S)' = {i}
            /\ \A e \in Range(cleanups') \cup misfired' :
                 (e.owner = calls[i].prev /\ e.during) => e.runs = 1]_vars

\* C1 witness: B replaced A without overlap, and its teardown of A ran a
\* callback registered during A.
C1_Witness ==
  \E i \in CallIds(S) :
    /\ Live(S, i)
    /\ tour = i
    /\ calls[i].prev # 0
    /\ calls[i].torn > 0

\* C2: under every interleaving of runTour calls at most one tour is live,
\* and a live tour is the one held in state.tour.
C2_OneLiveTourInHandle ==
  /\ Cardinality(LiveSet(S)) <= 1
  /\ \A t \in LiveSet(S) : tour = t

\* C3: after cancelTour() no tour is live, state.tour is null, the cleanup
\* list is empty and there is no paused snapshot.
C3_HardCancelIdle ==
  [][CancelTour =>
       /\ tour' = 0
       /\ LiveSet(S)' = {}
       /\ cleanups' = <<>>
       /\ pausedSteps' = NoSteps]_vars

\* C4: at the step in which runTour starts a new tour no paused snapshot
\* remains, neither an earlier one nor one made by tearing down the prior
\* tour.
C4_StartDiscardsSnapshot ==
  [][\A i \in 1..MaxCalls : StartsNow(i) => pausedSteps' = NoSteps]_vars

\* C5: when the tour in state.tour is cancelled through the presenter while
\* the step at position k (from 0) of its expanded sequence is current, the
\* snapshot becomes that sequence with resumeIndex k.
C5_PausePosition ==
  [][\A t \in 1..MaxCalls :
       (Live(S, t) /\ tour = t /\ PauseClick(t))
         => /\ pausedSteps' = calls[t].expanded
            /\ pausedIndex' = calls[t].cur - 1]_vars

\* C6: a tour started by resume from the snapshot slice `steps` has
\* len(steps) presenter steps, and its i-th step has the id, title, text and
\* attach selector of steps[i].
C6_ResumeRoundTrip ==
  \A i \in CallIds(S) :
    (Live(S, i) /\ calls[i].origin = "resume")
      => /\ Len(calls[i].expanded) = Len(calls[i].steps)
         /\ \A k \in 1..Len(calls[i].steps) :
              AddStepOptions(calls[i].expanded[k], k - 1)
                = AddStepOptions(calls[i].steps[k], k - 1)

\* C7: resume (resumeTour() or the Resume button) without a snapshot leaves
\* the tour handle, the snapshot, the cleanups and the runTour calls as they
\* are; with a snapshot it clears the snapshot and makes exactly one runTour
\* call, with the stored slice.  So a second resume with no pause in between
\* starts nothing.
C7_NoDoubleResume ==
  [][(ResumeTour \/ ResumeClick) =>
       IF pausedSteps = NoSteps
         THEN UNCHANGED <<tour, activeTour, pausedSteps, pausedIndex,
                          cleanups, misfired, calls>>
         ELSE /\ pausedSteps' = NoSteps
              /\ pausedIndex' = 0
              /\ Len(calls') = Len(calls) + 1
              /\ calls'[Len(calls')].steps = Slice(pausedSteps, pausedIndex)
              /\ \A k \in CallIds(S) : calls'[k].pc = calls[k].pc]_vars

\* C7 witness: a resume has made its runTour call and the snapshot is gone.
C7_Witness ==
  /\ pausedSteps = NoSteps
  /\ \E i \in CallIds(S) :
       calls[i].origin = "resume" /\ calls[i].steps # <<>>

\* The config entry a merged step belongs to, 0 when there is none.
MatchOf(step) ==
  FeatureIndex(OrT(GetT(step, "_parentId"), GetT(step, "id")))

\* The registry's selectors for entry i: its own and those of its flow.
RegistrySelectors(i) ==
  {GetS(configFeatures[i], "selector")}
    \cup {GetS(GetT(configFeatures[i], "flow")[k], "selector") :
            k \in 1..Len(GetT(configFeatures[i], "flow"))}

\* C8: a merged step whose id matches a registry entry, live or ghost, has
\* that entry's selector, and every step of its expansion has a selector of
\* that entry; none keeps the selector proposed for the step.
C8_SelectorInvariant ==
  (mPc \in {"merged", "expanded"} /\ MatchOf(mStep) # 0)
    => /\ GetS(mMerged, "selector")
            = GetS(configFeatures[MatchOf(mStep)], "selector")
       /\ \A k \in 1..Len(mExpanded) :
            GetS(mExpanded[k], "selector") \in RegistrySelectors(MatchOf(mStep))

\* The case of C9: the step carries a selector, its feature has a non-null
\* selector, and the two differ.
BothSelectorsDiffer ==
  /\ MatchOf(mStep) # 0
  /\ GetS(mStep, "selector") # NULL
  /\ GetS(configFeatures[MatchOf(mStep)], "selector") # NULL
  /\ GetS(configFeatures[MatchOf(mStep)], "selector") # GetS(mStep, "selector")

\* C9: when the step and its feature both have a selector and they differ,
\* mergeWithFeature returns the feature's selector and the step's title, text
\* and position unchanged.
C9_SelectorAuthority ==
  (mPc \in {"merged", "expanded"} /\ BothSelectorsDiffer)
    => /\ GetS(mMerged, "selector")
            = GetS(configFeatures[MatchOf(mStep)], "selector")
       /\ GetT(mMerged, "title") = GetT(mStep, "title")
       /\ GetT(mMerged, "text") = GetT(mStep, "text")
       /\ GetS(mMerged, "position") = GetS(mStep, "position")

\* C9 witness: a step with a selector of its own has been merged with a
\* feature whose selector differs.
C9_Witness == mPc = "merged" /\ BothSelectorsDiffer

\* The entries of a snapshot with the given id.
EntriesOf(snap, id) == {k \in 1..Len(snap) : snap[k].id = id}

\* C10: unregisterFeature(id) of a registered feature leaves exactly one
\* snapshot entry with that id, its selector null, its ghost flag true and
\* its name, description and route kept; registerFeature(F) leaves exactly
\* one entry with F's id, its selector F's and its ghost flag false.
C10_RegistryGhosting ==
  /\ [][\A id \in FeatureIds :
          (isRegistered(id) /\ unregisterFeature(id))
            => /\ Cardinality(EntriesOf(snapshot', id)) = 1
               /\ \A k \in EntriesOf(snapshot', id) :
                    /\ snapshot'[k].selector = NULL
                    /\ Get(snapshot'[k], "_ghost", FALSE)
                    /\ snapshot'[k].name = MapGet(features, id).name
                    /\ snapshot'[k].description
                         = MapGet(features, id).description
                    /\ snapshot'[k].route = MapGet(features, id).route]_vars
  /\ [][\A feature \in FeatureInputs :
          registerFeature(feature)
            => /\ Cardinality(EntriesOf(snapshot', feature.id)) = 1
               /\ \A k \in EntriesOf(snapshot', feature.id) :
                    /\ snapshot'[k].selector = feature.selector
                    /\ ~Get(snapshot'[k], "_ghost", FALSE)]_vars

\* The feature ids present in a snapshot.
SnapshotIds(snap) == {snap[k].id : k \in 1..Len(snap)}

\* C11: over any sequence of registry calls the set of feature ids present
\* in snapshot() never shrinks, and snapshot() never holds two entries with
\* the same id.
C11_NeverHardDeleted ==
  [][/\ SnapshotIds(snapshot) \subseteq SnapshotIds(snapshot')
     /\ \A id \in FeatureIds :
          Cardinality(EntriesOf(snapshot', id)) <= 1]_vars

\* The callAI calls that have returned a result.
Returned == {c \in 1..Len(aiCalls) : aiCalls[c].pc = "returned"}

IsPrefix(a, b) == Len(a) <= Len(b) /\ SubSeq(b, 1, Len(a)) = a

\* History h holds at entries k, k + 1 the (user, assistant) pair of a call
\* with user text `text` and provider result `result`.
PairAt(h, k, text, result) ==
  /\ k + 1 <= Len(h)
  /\ h[k] = [role |-> "user", content |-> text]
  /\ h[k + 1] = [role |-> "assistant", content |-> result.message]

\* C12: the history only grows at its end; a callAI whose provider resolves
\* with a value appends exactly the user turn and the assistant turn;
\* a callAI that fails (the provider rejects) leaves the history unchanged;
\* and under every interleaving of callAI calls the history is a sequence of
\* (user, assistant) pairs, one for every call that returned.
C12_HistoryAppendOnlyPairs ==
  /\ [](/\ Len(messages) = 2 * Cardinality(Returned)
        /\ \A k \in 1..Len(messages) :
             messages[k].role = IF k % 2 = 1 THEN "user" ELSE "assistant"
        /\ \A c \in Returned :
             \E k \in 1..Len(messages) : /\ k % 2 = 1
                                         /\ PairAt(messages, k, aiCalls[c].text,
                                                   aiCalls[c].result))
  /\ [][/\ IsPrefix(messages, messages')
        /\ \A c \in 1..MaxAICalls :
             /\ ProviderReject(c) => messages' = messages
             /\ \A result \in AIResults :
                  (ProviderResolve(c, result) /\ ~result.nullish)
                    => /\ Len(messages') = Len(messages) + 2
                       /\ PairAt(messages', Len(messages) + 1,
                                 aiCalls[c].text, result)]_vars

\* C13: when the provider resolves with a value that is not an object with a
\* string message and an array steps, callAI fails and the history is
\* unchanged.
C13_MalformedNeverStored ==
  [][\A c \in 1..MaxAICalls : \A result \in AIResults :
       (ProviderResolve(c, result) /\ ~ShapeOk(result))
         => /\ messages' = messages
            /\ aiCalls'[c].pc = "threw"]_vars

AllWs(toks) == \A k \in 1..Len(toks) : toks[k] = Ws

\* What may stand before the document when the text has at most one code
\* fence: whitespace, or a fence at the very start of the text followed by
\* whitespace.
IsOpening(toks) ==
  \/ AllWs(toks)
  \/ toks # <<>> /\ Head(toks) \in {FenceJson, Fence} /\ AllWs(Tail(toks))

\* The same, and also a json-tagged fence followed by a bare fence.
IsOpeningTwice(toks) ==
  \/ IsOpening(toks)
  \/ /\ toks # <<>>
     /\ Head(toks) = FenceJson
     /\ IsOpening(DropLeadingWs(Tail(toks)))
     /\ DropLeadingWs(Tail(toks)) # <<>>
     /\ Head(DropLeadingWs(Tail(toks))) = Fence

\* What may stand after the document: whitespace, with at most one fence.
IsClosing(toks) ==
  \/ AllWs(toks)
  \/ \E k \in 1..Len(toks) :
       /\ toks[k] = Fence
       /\ AllWs(SubSeq(toks, 1, k - 1))
       /\ AllWs(SubSeq(toks, k + 1, Len(toks)))

\* The text is document k inside the opening Opening and a closing, and the
\* document is an object with a string message and an array steps.
WellFormedAt(toks, k, Opening(_)) ==
  /\ toks[k] \in Docs
  /\ Opening(SubSeq(toks, 1, k - 1))
  /\ IsClosing(SubSeq(toks, k + 1, Len(toks)))
  /\ toks[k].v.object /\ toks[k].v.messageIsString /\ toks[k].v.stepsIsArray

\* parseAIResponse returned the document exactly when the text is well-formed
\* under Opening, and threw the fixed message otherwise.
ParsedExactly(Opening(_)) ==
  parsed # NotParsed =>
    /\ parsed.ok <=> \E k \in 1..Len(raw) : WellFormedAt(raw, k, Opening)
    /\ parsed.ok =>
         \E k \in 1..Len(raw) :
           WellFormedAt(raw, k, Opening) /\ parsed.value = raw[k].v
    /\ ~parsed.ok => parsed.error = Unreadable

\* C14 as stated: parseAIResponse(raw) returns the parsed document exactly
\* when raw, after stripping an optional code fence, is a document with a
\* string message and an array steps; on every other text it throws the fixed
\* message; and it leaves the conversation history unchanged.
C14_ParseExactlyWellFormed ==
  /\ []ParsedExactly(IsOpening)
  /\ [][ParseAIResponse => messages' = messages]_vars

\* C14 amended: parseAIResponse(raw) returns the parsed document exactly when
\* raw, after stripping an opening fence at its very start (json-tagged, bare,
\* or a json-tagged one followed by a bare one) and a closing fence at its
\* end, is a document with a string message and an array steps; on every
\* other text it throws the fixed message; and it leaves the conversation
\* history unchanged.
C14_ParseUpToTwoFences ==
  /\ []ParsedExactly(IsOpeningTwice)
  /\ [][ParseAIResponse => messages' = messages]_vars

\* C14 witness: a document inside a json fence has been parsed and returned,
\* with a history in place.
C14_Witness ==
  /\ raw = <<FenceJson, Ws, [t |-> "doc", v |-> parsed.value], Fence>>
  /\ parsed.ok
  /\ messages # <<>>

\* Position of the first step whose feature has route r, 0 when none.
FirstStepOn(r) ==
  LET on == {k \in 1..Len(planSteps) : RouteOfStep(planSteps[k]) = r}
  IN  IF on = {} THEN 0 ELSE CHOOSE k \in on : \A j \in on : k <= j

\* C15: previewRoutesNeeded(aiSteps) lists exactly the routes of the features
\* the steps reference, other than the current route, each once, in the order
\* of the first step that references it, with the name of that step's
\* feature; steps of no feature and features without a route add nothing.
C15_RoutePlan ==
  plan # NoPlan =>
    /\ \A k \in 1..Len(plan) :
         /\ plan[k].route # NULL
         /\ plan[k].route # pathname
         /\ FirstStepOn(plan[k].route) # 0
         /\ plan[k].featureName
              = NameOfStep(planSteps[FirstStepOn(plan[k].route)])
    /\ \A j, k \in 1..Len(plan) :
         j < k => FirstStepOn(plan[j].route) < FirstStepOn(plan[k].route)
    /\ \A i \in 1..Len(planSteps) :
         LET r == RouteOfStep(planSteps[i])
         IN  (r # NULL /\ r # pathname)
               => \E k \in 1..Len(plan) : plan[k].route = r

\* C15 witness: steps on /a, /b and /a (a second feature) while on /a give
\* the plan [/b].
C15_Witness ==
  /\ pathname = "/a"
  /\ planSteps = <<[id |-> <<"a">>], [id |-> <<"b">>], [id |-> <<"a2">>]>>
  /\ plan = <<[route |-> "/b", featureName |-> "B"]>>

\* The step the merge harness hands to expandFlowSteps.
ExpandInput == Spread(mMerged, [_highlightStyle |-> "default"])

\* The flow of the feature the harness expands against.
ExpandFlow ==
  LET i == FeatureIndex(GetT(ExpandInput, "id"))
  IN  IF i = 0 THEN <<>> ELSE GetT(configFeatures[i], "flow")

EndsWith(seq, suffix) ==
  /\ Len(suffix) <= Len(seq)
  /\ SubSeq(seq, Len(seq) - Len(suffix) + 1, Len(seq)) = suffix

\* C16: against a feature whose flow has N >= 1 entries expandFlowSteps
\* returns N steps, step k built from flow entry k: the first has the AI
\* step's title and text, a later one has a title ending in (k/N) counted
\* from one, each has _parentId = aiStep.id and the selector, waitFor and
\* advanceOn of its flow entry (null when the entry has none); against a
\* feature with no or an empty flow it returns the AI step alone, unchanged.
C16_FlowExpansion ==
  (mPc = "expanded" /\ FeatureIndex(GetT(ExpandInput, "id")) # 0) =>
    LET n == Len(ExpandFlow)
    IN  IF n = 0 THEN mExpanded = <<ExpandInput>>
        ELSE /\ Len(mExpanded) = n
             /\ mExpanded[1].title = ExpandInput.title
             /\ mExpanded[1].text = ExpandInput.text
             /\ \A k \in 1..n :
                  /\ mExpanded[k]._parentId = ExpandInput.id
                  /\ mExpanded[k].selector = GetS(ExpandFlow[k], "selector")
                  /\ mExpanded[k].waitFor = GetS(ExpandFlow[k], "waitFor")
                  /\ mExpanded[k].advanceOn = GetS(ExpandFlow[k], "advanceOn")
                  /\ k > 1 => EndsWith(mExpanded[k].title, <<k, n>>)

\* C16 witness: a step that carries its own selector has been expanded
\* against a feature with a two-entry flow.
C16_Witness ==
  /\ mPc = "expanded"
  /\ Len(ExpandFlow) = 2
  /\ Len(mExpanded) = 2
  /\ GetS(mStep, "selector") = "#ai"

\* Position in flow of the last top-level step at or before position k, 0
\* when there is none.
TopBefore(flow, k) ==
  LET tops == {j \in 1..k : flow[j].parentStep = NoParent}
  IN  IF tops = {} THEN 0 ELSE CHOOSE j \in tops : \A i \in tops : i <= j

\* flow is ordered: top-level steps ascend by index, every child stands in the
\* block of the top-level step whose index is its parentStep, and the
\* children of one block ascend by index.
FlowOrdered(flow) ==
  /\ \A k \in 1..Len(flow) :
       flow[k].parentStep # NoParent =>
         /\ TopBefore(flow, k) # 0
         /\ flow[TopBefore(flow, k)].index = flow[k].parentStep
  /\ \A j, k \in 1..Len(flow) :
       (j < k /\ flow[j].parentStep = NoParent /\ flow[k].parentStep = NoParent)
         => flow[j].index < flow[k].index
  /\ \A j, k \in 1..Len(flow) :
       (/\ j < k
        /\ flow[j].parentStep # NoParent
        /\ flow[k].parentStep # NoParent
        /\ TopBefore(flow, j) = TopBefore(flow, k))
         => flow[j].index < flow[k].index

\* flow holds the registered steps of the feature: every top-level step and
\* every child of a top-level step, and nothing else.
FlowComplete(flow, id) ==
  LET reg == Range(flowSteps[id])
      tops == {s \in reg : s.parentStep = NoParent}
  IN  Range(flow)
        = tops \cup {s \in reg : \E t \in tops : s.parentStep = t.index}

\* C17: in snapshot() the flow of every feature lists the registered
\* top-level steps in ascending index, each followed at once by its direct
\* children in ascending index, in whatever order the steps were registered.
C17_FlowOrder ==
  \A e \in 1..Len(snapshot) :
    /\ FlowOrdered(snapshot[e].flow)
    /\ FlowComplete(snapshot[e].flow, snapshot[e].id)

\* C17 witness: a feature in the snapshot has a top-level step and two
\* children of it, registered in the reverse of the flow's order.
C17_Witness ==
  \E e \in 1..Len(snapshot) :
    LET steps == flowSteps[snapshot[e].id]
    IN  /\ Len(steps) = 3
        /\ snapshot[e].flow = <<steps[3], steps[2], steps[1]>>
        /\ steps[3].parentStep = NoParent
        /\ steps[2].parentStep = steps[3].index
        /\ steps[1].parentStep = steps[3].index

\* Steps the expansion makes of one input step: one per flow entry of the
\* feature with the step's id, one when there is no such feature or no flow.
ExpansionLen(step) ==
  LET i == FeatureIndex(GetT(step, "id"))
      n == IF i = 0 THEN 0 ELSE Len(GetT(configFeatures[i], "flow"))
  IN  IF n = 0 THEN 1 ELSE n

RECURSIVE ExpansionsBefore(_, _)
\* Steps the expansions of the input steps before position j make together.
ExpansionsBefore(steps, j) ==
  IF j <= 1 THEN 0
  ELSE ExpansionsBefore(steps, j - 1) + ExpansionLen(steps[j - 1])

\* The presenter's step at position p is entry e (from 0) of input step j.
IsExpansionOf(shown, p, step, e) ==
  /\ IsPrefix(GetT(step, "title"), shown.title)
  /\ shown.id = IF ExpansionLen(step) = 1 /\ e = 0
                     /\ (FeatureIndex(GetT(step, "id")) = 0
                         \/ GetT(configFeatures[FeatureIndex(GetT(step, "id"))],
                                 "flow") = <<>>)
                  THEN ShepherdStepId(step, p - 1)
                  ELSE FlowStepId(GetT(step, "id"), e)

\* C18: the steps of the presenter's tour are the expansions of the input
\* steps, concatenated in input order, each in flow order: input step j
\* occupies the positions after those of the steps before it, one position
\* per flow entry (one position without a flow), and there are no others.
C18_TourStepOrder ==
  \A i \in CallIds(S) :
    (calls[i].pc = "started" /\ ~calls[i].done) =>
      LET steps == calls[i].steps
          shown == calls[i].tourSteps
      IN  /\ Len(shown) = ExpansionsBefore(steps, Len(steps) + 1)
          /\ \A j \in 1..Len(steps) :
               \A e \in 0..(ExpansionLen(steps[j]) - 1) :
                 IsExpansionOf(shown[ExpansionsBefore(steps, j) + e + 1],
                               ExpansionsBefore(steps, j) + e + 1,
                               steps[j], e)

\* C18 witness: a tour started from a step with a two-entry flow followed by
\* a step without a flow shows three steps.
C18_Witness ==
  \E i \in CallIds(S) :
    /\ calls[i].pc = "started"
    /\ ~calls[i].done
    /\ calls[i].steps = <<StepG, StepP>>
    /\ Len(calls[i].tourSteps) = 3

\* C19: every promise waitForElement or waitForRouteChange returns is
\* eventually resolved, also when the cleanup callbacks run while it is
\* pending.
C19_WaitsSettle ==
  \A w \in 1..MaxWaits :
    (Len(waits) >= w) ~> (Len(waits) >= w /\ waits[w].pc = "resolved")

\* The navigateToRoute call had nothing to do: no route, or already there.
NavNothingToDo == nav.route = NULL \/ nav.from = nav.route

\* C20: navigateToRoute(route) with an empty route or the current pathname
\* adds no message and calls neither the router nor the history fallback;
\* otherwise it adds one message and makes one router call (one history push
\* when no router is set); and its promise is never rejected.
C20_NavigateOnceNeverRejects ==
  /\ nav.pc # "rejected"
  /\ nav.pc # "idle" =>
       IF NavNothingToDo
         THEN /\ nav.msgs = 0 /\ nav.routerCalls = 0 /\ nav.pushes = 0
              /\ nav.pc = "resolved"
         ELSE /\ nav.msgs = 1
              /\ nav.routerCalls = (IF nav.hasRouter THEN 1 ELSE 0)
              /\ nav.hasRouter => nav.routerArg = nav.route
              /\ nav.pushes = (IF nav.hasRouter THEN 0 ELSE 1)

\* C20 witness: the router's promise rejected, the pathname never became the
\* route, the route wait ended by its timeout, and navigateToRoute resolved.
C20_Witness ==
  /\ nav.pc = "resolved"
  /\ nav.hasRouter
  /\ nav.outcome = "rejects"
  /\ nav.wait # 0
  /\ waits[nav.wait].by = "timer"
  /\ pathname # nav.route

\* The tour t of state st is one step further in state nx: its next step is
\* current, or it was on its last step and has completed.
AdvancedByOne(st, nx, t) ==
  \/ Live(nx, t) /\ nx.calls[t].cur = st.calls[t].cur + 1
  \/ st.calls[t].cur = Len(st.calls[t].tourSteps) /\ ~Live(nx, t)

\* The handle, the snapshot and the cleanup list of two states are the same.
SameHandles(st, nx) ==
  /\ nx.tour = st.tour
  /\ nx.pausedSteps = st.pausedSteps
  /\ nx.pausedIndex = st.pausedIndex
  /\ nx.cleanups = st.cleanups

\* C21: stepComplete() and stepFail(message) called while no tour is on
\* screen leave the tour handle, the paused snapshot and the cleanup list as
\* they are (neither touches the chat history); while a tour is on screen
\* stepComplete() moves a tour on by exactly one step and stepFail() leaves
\* every tour's current step where it is.
C21_StepReports ==
  /\ LiveSet(S) = {} =>
       /\ SameHandles(S, AfterStepComplete(S))
       /\ \A message \in FailMessages, rendered \in BOOLEAN :
            SameHandles(S, AfterStepFail(S, message, rendered))
  /\ LiveSet(S) # {} =>
       \E t \in LiveSet(S) : AdvancedByOne(S, AfterStepComplete(S), t)
  /\ \A t \in LiveSet(S), message \in FailMessages, rendered \in BOOLEAN :
       /\ Live(AfterStepFail(S, message, rendered), t)
       /\ AfterStepFail(S, message, rendered).calls[t].cur = calls[t].cur

\* One of the three required options is missing from the argument.
RequiredMissing(opts) ==
  \/ OptProvider(opts) = NULL
  \/ OptAppName(opts) = NULL
  \/ ~OptHasFeatures(opts)

\* C22: an init call whose argument lacks the provider, config.appName or
\* config.features throws, and leaves the provider, the config, the router,
\* the tour handle and the history as they were before the call.
C22_InitRejectsMissing ==
  [][\A opts \in InitOpts :
       (init(opts) /\ RequiredMissing(opts))
         => /\ lastInit'.result = "throws"
            /\ UNCHANGED <<provider, config, configFeatures, router, tour,
                           messages>>]_vars

\* C22 witness: a set-up SDK has just rejected an init call that lacked a
\* required option.
C22_Witness ==
  /\ lastInit.result = "throws"
  /\ RequiredMissing(lastInit.opts)
  /\ provider # NULL
  /\ config # NoConfig

\* C23: when a runTour call with an empty or missing step list returns, it
\* has created no presenter tour, no tour is on screen, the tour handle is
\* null, the cleanup list is empty and there is no paused snapshot.
C23_EmptyTourIdle ==
  [][\A i \in 1..MaxCalls :
       (RunTourLoaded(i) /\ calls[i].steps = <<>>)
         => /\ calls'[i].pc = "returned"
            /\ calls'[i].tourSteps = <<>>
            /\ LiveSet(S)' = {}
            /\ tour' = 0
            /\ cleanups' = <<>>
            /\ pausedSteps' = NoSteps]_vars

\* The presenter reports complete for tour t in this step: Next (Done) or
\* stepComplete() on its last step.
Completes(t) ==
  /\ Live(S, t)
  /\ calls[t].cur = Len(calls[t].tourSteps)
  /\ \/ NextClick(t)
     \/ StepComplete /\ tour = t /\ activeTour = t

\* C24: when the presenter reports complete for a tour on screen, every
\* callback of the cleanup list is invoked exactly once, the list is empty,
\* the paused snapshot is cleared with resume index 0, and the tour handle is
\* null.
C24_CompleteClears ==
  [][\A t \in 1..MaxCalls :
       Completes(t)
         => /\ cleanups' = <<>>
            /\ misfired' = misfired
            /\ calls'[t].swept = Len(cleanups)
            /\ pausedSteps' = NoSteps
            /\ pausedIndex' = 0
            /\ tour' = 0
            /\ ~Live(S, t)']_vars

\* C24 witness: a tour has completed while callbacks were pending, and the
\* list, the snapshot and the handle are clear.
C24_Witness ==
  /\ \E t \in CallIds(S) : calls[t].done /\ calls[t].swept > 0
  /\ cleanups = <<>>
  /\ pausedSteps = NoSteps
  /\ tour = 0

\* C25: whenever no tour is on screen and no runTour call is in progress,
\* the cleanup list is empty and no callback was dropped uninvoked, so no
\* listener, timer or observer registered for an earlier tour is installed.
C25_NoLeftoverCleanups ==
  (LiveSet(S) = {} /\ \A k \in CallIds(S) : ~InProgress(calls[k]))
    => /\ cleanups = <<>>
       /\ \A e \in misfired : e.runs >= 1

\* Position of the first occurrence of event e in the log, 0 when absent.
FirstAt(log, e) ==
  IF \E k \in 1..Len(log) : log[k] = e
    THEN CHOOSE k \in 1..Len(log) :
           log[k] = e /\ \A j \in 1..(k - 1) : log[j] # e
    ELSE 0

\* C26: for a step, first of its tour or not, whose feature has a route
\* other than the current pathname and a screen whose check() fails, the
\* router is called before any screen.navigate() for that step, and
\* screen.navigate() is called only when the route navigation was made and
\* left the step without a selector.
C26_RouteBeforeScreen ==
  (hook.offRoute /\ FirstAt(hook.log, "screen.navigate") # 0)
    => /\ FirstAt(hook.log, "router") # 0
       /\ FirstAt(hook.log, "router") < FirstAt(hook.log, "screen.navigate")
       /\ hook.pc = "done" => hook.attachTo = NULL

\* C27: when the beforeShow hook of a step completes while the step's
\* feature is live in the registry, the presenter step is attached to the
\* registry's current selector, whether or not the hook navigated.
C27_ShowTimeRemerge ==
  [][(hook.pc # "done" /\ hook'.pc = "done" /\ ~configFeatures'[1]._ghost)
       => hook'.attachTo = configFeatures'[1].selector]_vars

\* C28: a merged step whose id matches a registry feature has that feature's
\* route, waitFor, advanceOn and flow (null where the feature has none),
\* whatever the incoming step carries under those keys; hence two incoming
\* steps that differ only in those keys merge to the same values.
C28_RegistryKeysWin ==
  (mPc \in {"merged", "expanded"} /\ MatchOf(mStep) # 0)
    => LET feature == configFeatures[MatchOf(mStep)]
       IN /\ GetS(mMerged, "route") = GetS(feature, "route")
          /\ GetS(mMerged, "waitFor") = GetS(feature, "waitFor")
          /\ GetS(mMerged, "advanceOn") = GetS(feature, "advanceOn")
          /\ GetT(mMerged, "flow") = GetT(feature, "flow")

\* The registry proper: entries and flow steps.
Registry == <<features, flowSteps>>

\* The last call invoked nobody.
NobodyInvoked(n) == \A l \in ListenerIds : n[l] = 0

\* The last call invoked each listener of `subscribed` once, and no other.
EachInvokedOnce(n, subscribed) ==
  \A l \in ListenerIds : n[l] = IF l \in subscribed THEN 1 ELSE 0

\* What a step that is a call of unregisterFeature(id) has to satisfy.
Unregistered(id) ==
  /\ IF ~MapHas(features, id)
       THEN /\ UNCHANGED Registry
            /\ NobodyInvoked(notes')
       ELSE /\ MapHas(features', id)
            /\ Get(MapGet(features', id), "_ghost", FALSE)
            /\ flowSteps'[id] = <<>>
            /\ EachInvokedOnce(notes', listeners)
  /\ MapHas(features', id) =>
       /\ MapSet(features', GhostOf(MapGet(features', id))) = features'
       /\ flowSteps'[id] = <<>>

\* C29: unregisterFeature(id) for an id without an entry leaves the entries
\* and the flow steps as they are and invokes no listener; for an id with an
\* entry, live or ghost, it leaves a ghost entry, removes the feature's flow
\* steps and notifies the subscribers; and in the state it leaves, a second
\* call would change neither the entries nor the flow steps.
C29_UnregisterFeature ==
  [][\A id \in FeatureIds : unregisterFeature(id) => Unregistered(id)]_vars

\* C30: a call that mutates the registry invokes every listener subscribed
\* at the time of the call exactly once before it returns, and no call
\* invokes a listener that is not subscribed.
C30_FanOut ==
  /\ [][/\ \A feature \in FeatureInputs :
             registerFeature(feature) => EachInvokedOnce(notes', listeners)
        /\ \A id \in FeatureIds :
             (unregisterFeature(id) /\ MapHas(features, id))
               => EachInvokedOnce(notes', listeners)
        /\ \A id \in StepFeatureIds, index \in StepIndexes,
              parentStep \in StepParents :
             /\ registerStep(id, index, parentStep)
                  => EachInvokedOnce(notes', listeners)
             /\ (/\ unregisterStep(id, index, parentStep)
                 /\ MapHas(flowSteps[id], StepKey(index, parentStep)))
                  => EachInvokedOnce(notes', listeners)]_vars
  /\ [](\A l \in ListenerIds : l \notin listeners => notes[l] = 0)

\* C30 witness: a mutating call has invoked the subscribed listener and not
\* the other one.
C30_Witness ==
  /\ lastReg.op \in {"registerFeature", "unregisterFeature", "registerStep",
                     "unregisterStep"}
  /\ listeners = {2}
  /\ notes = [l \in ListenerIds |-> IF l = 2 THEN 1 ELSE 0]

\* The keys a flow step can be registered under.
StepKeys == {StepKey(index, parentStep) :
               index \in StepIndexes, parentStep \in StepParents}

\* Every step of the registry other than (featureId, key) is after the call
\* what it was before.
OtherStepsKept(featureId, key) ==
  /\ \A id \in FeatureIds \ {featureId} : flowSteps'[id] = flowSteps[id]
  /\ \A k \in StepKeys \ {key} :
       /\ MapHas(flowSteps'[featureId], k) <=> MapHas(flowSteps[featureId], k)
       /\ MapHas(flowSteps[featureId], k) =>
            MapGet(flowSteps'[featureId], k) = MapGet(flowSteps[featureId], k)

LiveEntry(id) ==
  MapHas(features, id) /\ ~Get(MapGet(features, id), "_ghost", FALSE)

\* C32: isRegistered(id) is true exactly when id has a live entry, and the
\* screen.check() of every snapshot entry, of the current snapshot or of an
\* earlier one that held the feature as live, is true exactly when the
\* feature is live now.
C32_LivenessPredicate ==
  /\ \A id \in FeatureIds : isRegistered(id) <=> LiveEntry(id)
  /\ \A id \in snappedLive \cup {features[k].id : k \in 1..Len(features)} :
       ScreenCheck(id) <=> LiveEntry(id)

\* C32 witness: a feature that a snapshot held as live is a ghost now, and
\* the check of its shim is false.
C32_Witness ==
  \E id \in snappedLive :
    /\ MapHas(features, id)
    /\ Get(MapGet(features, id), "_ghost", FALSE)
    /\ ~ScreenCheck(id)

\* C33: a handleSend call invokes the provider once; when the provider
\* rejects, an error message is shown, no tour is scheduled and the history
\* is left as it was; when the call has ended, whatever
\* the outcome, the input controls were re-enabled.
C33_ProviderFailure ==
  \A h \in 1..Len(send.calls) :
    send.calls[h].pc = "done" =>
      /\ send.calls[h].invoked = 1
      /\ send.calls[h].enabled
      /\ send.calls[h].outcome = "rejected" =>
           /\ send.calls[h].errorShown
           /\ ~send.calls[h].scheduled
           /\ send.calls[h].historyKept

\* C34: when the step's feature was a ghost as the tour was built and is
\* live as the step's hook completes after a route navigation, the hook has
\* waited for the feature's waitFor element and the auto-advance listener of
\* the feature's advanceOn is installed.
C34_ShowTimeFreshness ==
  [][(/\ hook.pc # "done" /\ hook'.pc = "done"
      /\ hook.builtGhost
      /\ \E k \in 1..Len(hook'.log) : hook'.log[k] = "router"
      /\ ~configFeatures'[1]._ghost)
       => /\ hook'.waited = configFeatures'[1].waitFor
          /\ hook'.auto = configFeatures'[1].advanceOn]_vars

\* C35: a delayed auto-advance whose tour is not the active one when its
\* timer fires changes nothing: it advances neither its own tour nor the
\* tour that is active in its place.
C35_StaleAdvance ==
  [][\A k \in 1..(2 * MaxEvents * MaxCalls) :
       (AdvanceTimerFires(k) /\ activeTour # adv.timers[k].tour)
         => UNCHANGED tourVars]_vars

\* C35 witness: a timer scheduled for one tour has fired while that tour was
\* no longer active, and another tour is the active one with its step shown.
C35_Witness ==
  /\ adv.fired.tour # 0
  /\ ~adv.fired.active
  /\ activeTour \notin {0, adv.fired.tour}
  /\ Live(S, activeTour)

\* C36: every advance that a DOM event causes comes from the listener of the
\* step that was current when the event arrived, and one event advances its
\* tour by one step at most.
C36_AdvanceCurrentOnly ==
  \A e \in 1..Len(adv.events) :
    /\ ~adv.events[e].stray
    /\ adv.events[e].advanced <= 1

\* C37: a start that was pending when cancelTour() was called, a runTour
\* call suspended before its tour exists or a delayed start of handleSend,
\* never starts a tour afterwards.
C37_CancelStopsPendingStart ==
  \A i \in send.voided : i \in CallIds(S) => calls[i].pc # "started"

\* C38: in every reachable state at most one of isActive() and isPaused()
\* is true.
C38_ActiveOrPaused == ~(isActive /\ isPaused)

\* C39: for every feature in snapshot(), flow holds each flow step that is
\* registered for the feature exactly once, the sub-steps whose parentStep is
\* the index of no registered top-level step included, and no other step.
C39_FlowHoldsAllSteps ==
  \A e \in 1..Len(snapshot) :
    /\ Range(snapshot[e].flow) = Range(flowSteps[snapshot[e].id])
    /\ Len(snapshot[e].flow) = Len(flowSteps[snapshot[e].id])

\* The keys of state.config other than those of `keys` are left as they were.
OtherKeysKept(keys) ==
  /\ "appName" \notin keys => config'.appName = config.appName
  /\ "router" \notin keys => config'.router = config.router
  /\ "features" \notin keys => configFeatures' = configFeatures

====
